---- MODULE Spec2Model ----
(***************************************************************************)
(* A model of jeromer/syslogparser: the shared primitive scanners          *)
(* (package parsercommon), the format detector (DetectRFC), the legacy     *)
(* RFC 3164 parser and the structured RFC 5424 parser.                     *)
(*                                                                         *)
(* A byte is a one-character string, a buffer is a sequence of bytes.      *)
(* Cursors and limits are 0-based offsets exactly as in the Go source;     *)
(* Byte(b, i) is the Go expression b[i].  A read at an offset >= len(b)    *)
(* is a run-time panic in Go; every scanner therefore reports a panic flag *)
(* next to its value, its new cursor and its error.                        *)
(*                                                                         *)
(* Package parsercommon itself is not among the source files; its          *)
(* scanners are modelled from the specification and from the package's     *)
(* tests (src/unnamed/part_003, lines 413-670).                            *)
(***************************************************************************)
EXTENDS Integers, Sequences, FiniteSets, TLC

VARIABLES
    buff,    \* the input buffer handed to the entry point
    wire,    \* the fields the input buffer was assembled from
    p,       \* the Parser instance (struct fields)
    opts,    \* the override hooks applied to the instance
    pc,      \* position of the running operation
    err,     \* the error returned by the operation, None for nil
    now,     \* the current calendar year, time.Now().Year()
    run,     \* 1 for the first instance bound to buff, 2 for the second
    prev,    \* the outcome of the first instance
    parts,   \* the LogParts returned by Dump
    ret      \* the value returned by a primitive scanner or by DetectRFC

vars == <<buff, wire, p, opts, pc, err, now, run, prev, parts, ret>>

None == "nil"

----------------------------------------------------------------------------
(* Bytes and slices                                                        *)

Digits == {"0", "1", "2", "3", "4", "5", "6", "7", "8", "9"}

DigitVal == ("0" :> 0) @@ ("1" :> 1) @@ ("2" :> 2) @@ ("3" :> 3) @@ ("4" :> 4)
            @@ ("5" :> 5) @@ ("6" :> 6) @@ ("7" :> 7) @@ ("8" :> 8) @@ ("9" :> 9)

\* b[i]
Byte(b, i) == b[i + 1]

\* i is a legal index of b
InBuf(b, i) == i >= 0 /\ i < Len(b)

\* b[from:to]
Slice(b, from, to) == SubSeq(b, from + 1, to)

Min(a, b) == IF a <= b THEN a ELSE b

\* every sequence over S of length 0..n
SeqsUpTo(S, n) == UNION {[1..k -> S] : k \in 0..n}

\* the decimal value of a sequence of digits
RECURSIVE Atoi(_)
Atoi(s) == IF s = <<>> THEN 0
           ELSE 10 * Atoi(SubSeq(s, 1, Len(s) - 1)) + DigitVal[s[Len(s)]]

\* the smallest element of a non-empty set of integers
MinOf(S) == CHOOSE x \in S : \A y \in S : x <= y

\* the first index at or after i of a byte of s that is not a space
RECURSIVE TrimLeft(_, _)
TrimLeft(s, i) == IF i <= Len(s) /\ s[i] = " " THEN TrimLeft(s, i + 1) ELSE i

\* the last index at or before j of a byte of s that is not a space
RECURSIVE TrimRight(_, _)
TrimRight(s, j) == IF j >= 1 /\ s[j] = " " THEN TrimRight(s, j - 1) ELSE j

\* bytes.Trim(s, " ")
Trim(s) == SubSeq(s, TrimLeft(s, 1), TrimRight(s, Len(s)))

----------------------------------------------------------------------------
(* Package parsercommon                                                    *)

NO_VERSION == -1

ErrEOL == "End of log line"
ErrNoSpace == "No space found"
ErrPriorityNoStart == "No start char found for priority"
ErrPriorityEmpty == "Priority field empty"
ErrPriorityNoEnd == "No end char found for priority"
ErrPriorityTooShort == "Priority field too short"
ErrPriorityTooLong == "Priority field too long"
ErrPriorityNonDigit == "Non digit found in priority"
ErrVersionNotFound == "Can not find version"
ErrTimestampUnknownFormat == "Timestamp format unknown"

IsDigit(c) == c \in Digits

\* the Priority triple derived from the raw value
NewPriority(n) == [P |-> n, F |-> n \div 8, S |-> n % 8]

\* a nil *Priority
NilPriority == [P |-> -1, F |-> -1, S |-> -1]

\* the result r of a call is held in a local, and the function goes on as K
Then(r, K(_)) == K(r)

\* a scanner's result: value, cursor after the scan, error, panic flag
Res(v, c, e) == [val |-> v, cursor |-> c, err |-> e, panic |-> FALSE]

Panic(c) == [val |-> None, cursor |-> c, err |-> None, panic |-> TRUE]

\* the scan loop of ParsePriority: i is the offset from the opening
\* bracket, acc the digits read so far
RECURSIVE PriScan(_, _, _, _, _)
PriScan(b, cursor, l, i, acc) ==
    IF cursor + i >= l THEN Res(NilPriority, cursor, ErrPriorityNoEnd)
    ELSE IF i >= 5 THEN Res(NilPriority, cursor, ErrPriorityTooLong)
    ELSE LET c == Byte(b, cursor + i)
         IN  IF c = ">"
             THEN IF i = 1 THEN Res(NilPriority, cursor, ErrPriorityTooShort)
                  ELSE Res(NewPriority(acc), cursor + i + 1, None)
             ELSE IF IsDigit(c)
             THEN PriScan(b, cursor, l, i + 1, acc * 10 + DigitVal[c])
             ELSE Res(NilPriority, cursor, ErrPriorityNonDigit)

\* ParsePriority leaving the cursor on the '>' it found
ParsePriority_CursorOnClose(b, cursor, l) ==
    LET r == IF l <= 0 THEN Res(NilPriority, cursor, ErrPriorityEmpty)
             ELSE IF Byte(b, cursor) # "<"
             THEN Res(NilPriority, cursor, ErrPriorityNoStart)
             ELSE PriScan(b, cursor, l, 1, 0)
    IN  IF r.err = None THEN [r EXCEPT !.cursor = r.cursor - 1] ELSE r

\* ParsePriority stepping over the '<' before it scans and not stepping
\* back when the scan fails
ParsePriority_KeepsAdvance(b, cursor, l) ==
    LET r == IF l <= 0 THEN Res(NilPriority, cursor, ErrPriorityEmpty)
             ELSE IF Byte(b, cursor) # "<"
             THEN Res(NilPriority, cursor, ErrPriorityNoStart)
             ELSE PriScan(b, cursor, l, 1, 0)
    IN  IF r.err \notin {None, ErrPriorityEmpty, ErrPriorityNoStart}
        THEN [r EXCEPT !.cursor = r.cursor + 1] ELSE r

ParsePriority(b, cursor, l) ==
    IF l <= 0 THEN Res(NilPriority, cursor, ErrPriorityEmpty)
    ELSE IF Byte(b, cursor) # "<" THEN Res(NilPriority, cursor, ErrPriorityNoStart)
    ELSE PriScan(b, cursor, l, 1, 0)

\* the offset just past the run of decimal digits that starts at from
RECURSIVE DigitsEnd(_, _, _)
DigitsEnd(b, from, l) ==
    IF from < l /\ InBuf(b, from) /\ IsDigit(Byte(b, from))
    THEN DigitsEnd(b, from + 1, l) ELSE from

ParseVersion(b, cursor, l) ==
    IF cursor >= l THEN Res(NO_VERSION, cursor, ErrVersionNotFound)
    ELSE IF ~InBuf(b, cursor) THEN Panic(cursor)
    ELSE IF ~IsDigit(Byte(b, cursor)) THEN Res(NO_VERSION, cursor + 1, None)
    ELSE LET to == DigitsEnd(b, cursor, l)
         IN  Res(Atoi(Slice(b, cursor, to)), to, None)

\* the offset of the first space at or after from, or l when there is none
RECURSIVE SpaceOrLimit(_, _, _)
SpaceOrLimit(b, from, l) ==
    IF from < l /\ Byte(b, from) # " " THEN SpaceOrLimit(b, from + 1, l)
    ELSE from

ParseHostname(b, cursor, l) ==
    LET to == SpaceOrLimit(b, cursor, l)
    IN  Res(Slice(b, cursor, to), to, None)

----------------------------------------------------------------------------
(* DetectRFC, src/syslogparser.go                                          *)

RFC_UNKNOWN == 0
RFC_3164 == 1
RFC_5424 == 2

DetectMax == 10

\* what DetectRFC returns: classification, error, panic flag
Detected(r, e) == [rfc |-> r, err |-> e, panic |-> FALSE]

DetectPanic == [rfc |-> None, err |-> None, panic |-> TRUE]

\* DetectRFC taking a found version for the legacy format
DetectClassify_Swapped(v, e) ==
    IF e # None THEN Detected(RFC_UNKNOWN, e)
    ELSE IF v = NO_VERSION THEN Detected(RFC_5424, None)
    ELSE Detected(RFC_3164, None)

\* the classification made from the version and error held after the loop
DetectClassify(v, e) ==
    IF e # None THEN Detected(RFC_UNKNOWN, e)
    ELSE IF v = NO_VERSION THEN Detected(RFC_3164, None)
    ELSE Detected(RFC_5424, None)

\* the loop of DetectRFC from index i on
RECURSIVE DetectLoop(_, _)
DetectLoop(b, i) ==
    IF i >= DetectMax THEN DetectClassify(0, None)
    ELSE IF ~InBuf(b, i) THEN DetectPanic
    ELSE IF Byte(b, i) = ">" /\ i < DetectMax
    THEN LET r == ParseVersion(b, i + 1, DetectMax)
         IN  IF r.panic THEN DetectPanic ELSE DetectClassify(r.val, r.err)
    ELSE DetectLoop(b, i + 1)

DetectRFC(b) == DetectLoop(b, 0)

----------------------------------------------------------------------------
(* Package time of the Go library, as far as the parsers use it            *)

\* a time.Time: calendar fields and the zone as minutes east of UTC
\* (time.UTC is zone 0)
Time(y, mo, d, h, mi, sec, ns, z) ==
    [year |-> y, month |-> mo, day |-> d, hour |-> h, minute |-> mi,
     second |-> sec, nsec |-> ns, zone |-> z]

\* the zero time.Time: January 1, year 1, 00:00:00 UTC
ZeroTime == Time(1, 1, 1, 0, 0, 0, 0, 0)

IsLeap(y) == y % 4 = 0 /\ (y % 100 # 0 \/ y % 400 = 0)

DaysIn(mo, y) ==
    IF mo = 2 THEN (IF IsLeap(y) THEN 29 ELSE 28)
    ELSE IF mo \in {4, 6, 9, 11} THEN 30 ELSE 31

\* time.Date: a day beyond the end of its month is carried into the next
\* month (October 32 becomes November 1); every other field the parsers
\* pass is already in range
Date(y, mo, d, h, mi, sec, ns, z) ==
    IF d > DaysIn(mo, y)
    THEN IF mo = 12 THEN Time(y + 1, 1, d - DaysIn(mo, y), h, mi, sec, ns, z)
         ELSE Time(y, mo + 1, d - DaysIn(mo, y), h, mi, sec, ns, z)
    ELSE Time(y, mo, d, h, mi, sec, ns, z)

UpperCase == <<"A", "B", "C", "D", "E", "F", "G", "H", "I", "J", "K", "L", "M",
               "N", "O", "P", "Q", "R", "S", "T", "U", "V", "W", "X", "Y", "Z">>

LowerCase == <<"a", "b", "c", "d", "e", "f", "g", "h", "i", "j", "k", "l", "m",
               "n", "o", "p", "q", "r", "s", "t", "u", "v", "w", "x", "y", "z">>

\* the ASCII lower-case form of a byte
ToLower(c) ==
    IF \E i \in 1..26 : UpperCase[i] = c
    THEN LowerCase[CHOOSE i \in 1..26 : UpperCase[i] = c] ELSE c

\* time.shortMonthNames, lower-cased
ShortMonthNames ==
    << <<"j", "a", "n">>, <<"f", "e", "b">>, <<"m", "a", "r">>,
       <<"a", "p", "r">>, <<"m", "a", "y">>, <<"j", "u", "n">>,
       <<"j", "u", "l">>, <<"a", "u", "g">>, <<"s", "e", "p">>,
       <<"o", "c", "t">>, <<"n", "o", "v">>, <<"d", "e", "c">> >>

\* a step of time.Parse over the value s: success flag, value read, offset
\* of the rest of s
Got(v, n) == [ok |-> TRUE, val |-> v, next |-> n]

Bad == [ok |-> FALSE, val |-> 0, next |-> 0]

\* time.lookup(shortMonthNames, s[i:]): case-insensitive
LookupMonth(s, i) ==
    IF i + 3 > Len(s) THEN Bad
    ELSE LET w == [k \in 1..3 |-> ToLower(Byte(s, i + k - 1))]
         IN  IF \E m \in 1..12 : ShortMonthNames[m] = w
             THEN Got(CHOOSE m \in 1..12 : ShortMonthNames[m] = w, i + 3)
             ELSE Bad

\* time.skip(value, prefix) for a prefix of spaces: the value is empty or
\* starts with a space, and its whole run of spaces is dropped
RECURSIVE CutSpace(_, _)
CutSpace(s, i) == IF InBuf(s, i) /\ Byte(s, i) = " " THEN CutSpace(s, i + 1)
                  ELSE i

SkipSpaces(s, i) ==
    IF InBuf(s, i) /\ Byte(s, i) # " " THEN Bad ELSE Got(0, CutSpace(s, i))

\* time.skip(value, ":")
SkipColon(s, i) ==
    IF InBuf(s, i) /\ Byte(s, i) = ":" THEN Got(0, i + 1) ELSE Bad

\* time.getnum(s[i:], fixed): one or two digits, exactly two when fixed
GetNum(s, i, fixed) ==
    IF ~(InBuf(s, i) /\ IsDigit(Byte(s, i))) THEN Bad
    ELSE IF ~(InBuf(s, i + 1) /\ IsDigit(Byte(s, i + 1)))
    THEN IF fixed THEN Bad ELSE Got(DigitVal[Byte(s, i)], i + 1)
    ELSE Got(10 * DigitVal[Byte(s, i)] + DigitVal[Byte(s, i + 1)], i + 2)

RECURSIVE Pow10(_)
Pow10(n) == IF n <= 0 THEN 1 ELSE 10 * Pow10(n - 1)

\* the fractional second time.Parse accepts after the seconds although the
\* layout has none: '.' or ',' and at least one digit; the value is in
\* nanoseconds, digits beyond the ninth are dropped
FracSecond(s, i) ==
    IF InBuf(s, i + 1) /\ Byte(s, i) \in {".", ","} /\ IsDigit(Byte(s, i + 1))
    THEN LET to == DigitsEnd(s, i + 1, Len(s))
             n == Min(to - (i + 1), 9)
         IN  Got(Atoi(Slice(s, i + 1, i + 1 + n)) * Pow10(9 - n), to)
    ELSE Got(0, i)

\* time.ParseInLocation(layout, s, location) for the two layouts of the
\* legacy parser, "Jan 02 15:04:05" (zeroDay) and "Jan  2 15:04:05": month
\* name, spaces, day (two digits when zeroDay), spaces, hour, ':', two-digit
\* minute, ':', two-digit second, optional fraction, nothing else; the year
\* is 0, in which February has 29 days
ParseInLocation(zeroDay, s, z) ==
    Then(LookupMonth(s, 0), LAMBDA mo : IF ~mo.ok THEN Bad ELSE
    Then(SkipSpaces(s, mo.next), LAMBDA s1 : IF ~s1.ok THEN Bad ELSE
    Then(GetNum(s, s1.next, zeroDay), LAMBDA d : IF ~d.ok THEN Bad ELSE
    Then(SkipSpaces(s, d.next), LAMBDA s2 : IF ~s2.ok THEN Bad ELSE
    Then(GetNum(s, s2.next, FALSE), LAMBDA h :
        IF ~(h.ok /\ h.val < 24) THEN Bad ELSE
    Then(SkipColon(s, h.next), LAMBDA c1 : IF ~c1.ok THEN Bad ELSE
    Then(GetNum(s, c1.next, TRUE), LAMBDA mi :
        IF ~(mi.ok /\ mi.val < 60) THEN Bad ELSE
    Then(SkipColon(s, mi.next), LAMBDA c2 : IF ~c2.ok THEN Bad ELSE
    Then(GetNum(s, c2.next, TRUE), LAMBDA se :
        IF ~(se.ok /\ se.val < 60) THEN Bad ELSE
    Then(FracSecond(s, se.next), LAMBDA fr :
        IF fr.next = Len(s) /\ d.val >= 1 /\ d.val <= DaysIn(mo.val, 0)
        THEN Got(Time(0, mo.val, d.val, h.val, mi.val, se.val, fr.val, z),
                 Len(s))
        ELSE Bad))))))))))

----------------------------------------------------------------------------
(* Package rfc3164, src/rfc3164/rfc3164.go.  Strings are byte sequences,   *)
(* "" is <<>>; the buff field of the Parser is the variable buff, which no *)
(* operation assigns.                                                      *)

RFC3164_MAX_PACKET_LEN == 2048

\* len("Jan 02 15:04:05") = len("Jan  2 15:04:05")
TsFmtLen == 15

\* NewParser without the cap on the scan limit
NewParser3164_NoCap(b) ==
    [cursor |-> 0, l |-> Len(b),
     priority |-> NilPriority, version |-> 0, header |-> None, message |-> None,
     location |-> 0, hostname |-> <<>>, tmpTag |-> <<>>]

NewParser3164(b) ==
    [cursor |-> 0, l |-> Min(Len(b), RFC3164_MAX_PACKET_LEN),
     priority |-> NilPriority, version |-> 0, header |-> None, message |-> None,
     location |-> 0, hostname |-> <<>>, tmpTag |-> <<>>]

\* if (cursor < l) && (buff[cursor] == ' ') { cursor++ }
SkipSpaceInLimit(b, c, l) == IF c < l /\ Byte(b, c) = " " THEN c + 1 ELSE c

parsePriority3164(b, q) ==
    IF q.priority # NilPriority THEN Res(q.priority, q.cursor, None)
    ELSE ParsePriority(b, q.cursor, q.l)

\* fixTimestampIfNeeded keeping the parsed year
fixTimestampIfNeeded_NoBackfill(ts, nowYear) ==
    Date(ts.year, ts.month, ts.day, ts.hour, ts.minute, ts.second, ts.nsec,
         ts.zone)

fixTimestampIfNeeded(ts, nowYear) ==
    LET y == IF ts.year = 0 THEN nowYear ELSE ts.year
    IN  Date(y, ts.month, ts.day, ts.hour, ts.minute, ts.second, ts.nsec,
             ts.zone)

\* parseTimestamp that leaves the cursor 15 bytes after the start of the
\* scan when no format matches
parseTimestamp3164_RelativeCursor(b, q, nowYear) ==
    LET fits == q.cursor + TsFmtLen <= q.l
        sub == Slice(b, q.cursor, q.cursor + TsFmtLen)
    IN  Then(IF fits THEN ParseInLocation(TRUE, sub, q.location) ELSE Bad,
             LAMBDA r1 :
        Then(IF r1.ok \/ ~fits THEN r1
             ELSE ParseInLocation(FALSE, sub, q.location),
             LAMBDA r :
            IF ~r.ok
            THEN Res(ZeroTime,
                     SkipSpaceInLimit(b, q.cursor + TsFmtLen, q.l),
                     ErrTimestampUnknownFormat)
            ELSE Res(fixTimestampIfNeeded(r.val, nowYear),
                     SkipSpaceInLimit(b, q.cursor + TsFmtLen, q.l), None)))

parseTimestamp3164(b, q, nowYear) ==
    LET fits == q.cursor + TsFmtLen <= q.l
        sub == Slice(b, q.cursor, q.cursor + TsFmtLen)
    IN  Then(IF fits THEN ParseInLocation(TRUE, sub, q.location) ELSE Bad,
             LAMBDA r1 :
        Then(IF r1.ok \/ ~fits THEN r1
             ELSE ParseInLocation(FALSE, sub, q.location),
             LAMBDA r :
            IF ~r.ok
            THEN Res(ZeroTime, SkipSpaceInLimit(b, TsFmtLen, q.l),
                     ErrTimestampUnknownFormat)
            ELSE Res(fixTimestampIfNeeded(r.val, nowYear),
                     SkipSpaceInLimit(b, q.cursor + TsFmtLen, q.l), None)))

\* parseHostname scanning the wire although a hostname was supplied
parseHostname3164_ScanAnyway(b, q) ==
    LET h == ParseHostname(b, q.cursor, q.l)
    IN  IF q.hostname # <<>> THEN Res(q.hostname, h.cursor, None) ELSE h

parseHostname3164(b, q) ==
    IF q.hostname # <<>> THEN Res(q.hostname, q.cursor, None)
    ELSE ParseHostname(b, q.cursor, q.l)

\* the loop of parseTag without the test for '['
RECURSIVE TagLoop_KeepsPid(_, _, _, _, _)
TagLoop_KeepsPid(b, from, cur, tag, found) ==
    IF ~InBuf(b, cur) THEN Panic(cur)
    ELSE IF Byte(b, cur) = ":" \/ Byte(b, cur) = " "
    THEN Res(Slice(b, from, cur), cur + 1, None)
    ELSE TagLoop_KeepsPid(b, from, cur + 1, tag, found)

\* the loop of parseTag with the cursor at cur
RECURSIVE TagLoop(_, _, _, _, _)
TagLoop(b, from, cur, tag, found) ==
    IF ~InBuf(b, cur) THEN Panic(cur)
    ELSE LET c == Byte(b, cur)
             bracketOpen == c = "["
             endOfTag == c = ":" \/ c = " "
             tag1 == IF bracketOpen THEN Slice(b, from, cur) ELSE tag
             found1 == found \/ bracketOpen
         IN  IF endOfTag
             THEN Res(IF ~found1 THEN Slice(b, from, cur) ELSE tag1,
                      cur + 1, None)
             ELSE TagLoop(b, from, cur + 1, tag1, found1)

parseTag(b, q) ==
    IF q.tmpTag # <<>> THEN Res(q.tmpTag, q.cursor, None)
    ELSE LET r == TagLoop(b, q.cursor, q.cursor, <<>>, FALSE)
         IN  IF r.panic THEN r
             ELSE Res(r.val, SkipSpaceInLimit(b, r.cursor, q.l), None)

parseContent(b, q) ==
    IF q.cursor > q.l THEN Res(<<>>, q.cursor, ErrEOL)
    ELSE LET content == Trim(Slice(b, q.cursor, q.l))
         IN  Res(content, q.cursor + Len(content), ErrEOL)

Dump3164(q) ==
    [timestamp |-> q.header.timestamp, hostname |-> q.header.hostname,
     tag |-> q.message.tag, content |-> q.message.content,
     priority |-> q.priority.P, facility |-> q.priority.F,
     severity |-> q.priority.S]

----------------------------------------------------------------------------
(* Package rfc5424, src/unnamed/part_001                                   *)

NILVALUE == "-"

RFC5424_MAX_PACKET_LEN == 3048

ErrYearInvalid == "Invalid year in timestamp"
ErrMonthInvalid == "Invalid month in timestamp"
ErrDayInvalid == "Invalid day in timestamp"
ErrHourInvalid == "Invalid hour in timestamp"
ErrMinuteInvalid == "Invalid minute in timestamp"
ErrSecondInvalid == "Invalid second in timestamp"
ErrSecFracInvalid == "Invalid fraction of second in timestamp"
ErrTimeZoneInvalid == "Invalid time zone in timestamp"
ErrInvalidTimeFormat == "Invalid time format"
ErrInvalidAppName == "Invalid app name"
ErrInvalidProcId == "Invalid proc ID"
ErrInvalidMsgId == "Invalid msg ID"
ErrNoStructuredData == "No structured data"

\* strconv.Atoi: an optional sign and at least one decimal digit
StrconvAtoi(s) ==
    LET signed == s # <<>> /\ s[1] \in {"+", "-"}
        ds == IF signed THEN Tail(s) ELSE s
    IN  IF ds = <<>> \/ \E i \in 1..Len(ds) : ~IsDigit(ds[i]) THEN Bad
        ELSE Got(IF signed /\ s[1] = "-" THEN 0 - Atoi(ds) ELSE Atoi(ds), Len(s))

\* parsercommon.Parse2Digits
Parse2Digits(b, cursor, l, min, max, e) ==
    IF cursor + 2 > l THEN Res(0, cursor, ErrEOL)
    ELSE LET n == StrconvAtoi(Slice(b, cursor, cursor + 2))
         IN  IF n.ok /\ n.val >= min /\ n.val <= max
             THEN Res(n.val, cursor + 2, None)
             ELSE Res(0, cursor + 2, e)

NewParser5424(b) ==
    [cursor |-> 0, l |-> Min(Len(b), RFC5424_MAX_PACKET_LEN),
     header |-> None, structuredData |-> <<>>, message |-> <<>>,
     tmpHostname |-> <<>>, tmpPriority |-> NilPriority]

parsePriority5424(b, q) ==
    IF q.tmpPriority # NilPriority THEN Res(q.tmpPriority, q.cursor, None)
    ELSE ParsePriority(b, q.cursor, q.l)

parseVersion5424(b, q) == ParseVersion(b, q.cursor, q.l)

parseYear(b, cursor, l) ==
    IF cursor + 4 > l THEN Res(0, cursor, ErrEOL)
    ELSE LET n == StrconvAtoi(Slice(b, cursor, cursor + 4))
         IN  IF n.ok THEN Res(n.val, cursor + 4, None)
             ELSE Res(0, cursor + 4, ErrYearInvalid)

parseMonth(b, cursor, l) == Parse2Digits(b, cursor, l, 1, 12, ErrMonthInvalid)

parseDay(b, cursor, l) == Parse2Digits(b, cursor, l, 1, 31, ErrDayInvalid)

parseHour(b, cursor, l) == Parse2Digits(b, cursor, l, 0, 23, ErrHourInvalid)

parseMinute(b, cursor, l) == Parse2Digits(b, cursor, l, 0, 59, ErrMinuteInvalid)

parseSecond(b, cursor, l) == Parse2Digits(b, cursor, l, 0, 59, ErrSecondInvalid)

\* the test "buff[*cursor] != c" that follows the scan r: a panic past the
\* end of the buffer, the error e when the byte differs, else r itself
Expect(b, r, c, e) ==
    IF r.err # None \/ r.panic THEN r
    ELSE IF ~InBuf(b, r.cursor) THEN Panic(r.cursor)
    ELSE IF Byte(b, r.cursor) # c THEN Res(r.val, r.cursor, e)
    ELSE r

parseFullDate(b, cursor, l) ==
    LET zero == [year |-> 0, month |-> 0, day |-> 0]
    IN  Then(Expect(b, parseYear(b, cursor, l), "-",
                    ErrTimestampUnknownFormat), LAMBDA y :
            IF y.panic THEN y
            ELSE IF y.err # None THEN Res(zero, y.cursor, y.err) ELSE
        Then(Expect(b, parseMonth(b, y.cursor + 1, l), "-",
                    ErrTimestampUnknownFormat), LAMBDA m :
            IF m.panic THEN m
            ELSE IF m.err # None THEN Res(zero, m.cursor, m.err) ELSE
        Then(parseDay(b, m.cursor + 1, l), LAMBDA d :
            IF d.err # None THEN Res(zero, d.cursor, d.err)
            ELSE Res([year |-> y.val, month |-> m.val, day |-> d.val],
                     d.cursor, None))))

getHourMinute(b, cursor, l) ==
    Then(Expect(b, parseHour(b, cursor, l), ":", ErrInvalidTimeFormat),
         LAMBDA h :
        IF h.panic THEN h
        ELSE IF h.err # None THEN Res(<<0, 0>>, h.cursor, h.err) ELSE
    Then(parseMinute(b, h.cursor + 1, l), LAMBDA m :
        IF m.err # None THEN Res(<<0, 0>>, m.cursor, m.err)
        ELSE Res(<<h.val, m.val>>, m.cursor, None)))

\* the offset at which the digit loop of parseSecFrac stops
RECURSIVE SecFracEnd(_, _, _, _)
SecFracEnd(b, to, max, l) ==
    IF to < max /\ to < l /\ IsDigit(Byte(b, to))
    THEN SecFracEnd(b, to + 1, max, l) ELSE to

\* parseSecFrac reading the digits as a count of microseconds
parseSecFrac_RightAligned(b, cursor, l) ==
    LET to == SecFracEnd(b, cursor, cursor + 6, l)
        sub == Slice(b, cursor, to)
    IN  IF Len(sub) = 0 THEN Res(0, cursor, ErrSecFracInvalid)
        ELSE Res(Atoi(sub), to, None)

\* the float64 fraction 0.d1..dn (n <= 6) is held exactly, in millionths
parseSecFrac(b, cursor, l) ==
    LET to == SecFracEnd(b, cursor, cursor + 6, l)
        sub == Slice(b, cursor, to)
    IN  IF Len(sub) = 0 THEN Res(0, cursor, ErrSecFracInvalid)
        ELSE Res(Atoi(sub) * Pow10(6 - Len(sub)), to, None)

\* strconv.FormatFloat(frac, 'f', 9, 64)[2:] read as an integer
toNSec(sec) == (sec % 1000000) * 1000

\* parsePartialTime that returns the error of the fraction scan
parsePartialTime_FracErrorFails(b, cursor, l) ==
    Then(Expect(b, getHourMinute(b, cursor, l), ":", ErrInvalidTimeFormat),
         LAMBDA hm :
        IF hm.panic THEN hm
        ELSE IF hm.err # None THEN Res(None, hm.cursor, hm.err) ELSE
    Then(parseSecond(b, hm.cursor + 1, l), LAMBDA se :
        IF se.err # None THEN Res(None, se.cursor, se.err) ELSE
    Then([hour |-> hm.val[1], minute |-> hm.val[2], seconds |-> se.val,
          secFrac |-> 0], LAMBDA pt :
        IF ~InBuf(b, se.cursor) THEN Panic(se.cursor)
        ELSE IF Byte(b, se.cursor) # "." THEN Res(pt, se.cursor, None) ELSE
    Then(parseSecFrac(b, se.cursor + 1, l), LAMBDA fr :
        IF fr.err # None THEN Res(None, fr.cursor, fr.err)
        ELSE Res([pt EXCEPT !.secFrac = fr.val], fr.cursor, None)))))

parsePartialTime(b, cursor, l) ==
    Then(Expect(b, getHourMinute(b, cursor, l), ":", ErrInvalidTimeFormat),
         LAMBDA hm :
        IF hm.panic THEN hm
        ELSE IF hm.err # None THEN Res(None, hm.cursor, hm.err) ELSE
    Then(parseSecond(b, hm.cursor + 1, l), LAMBDA se :
        IF se.err # None THEN Res(None, se.cursor, se.err) ELSE
    Then([hour |-> hm.val[1], minute |-> hm.val[2], seconds |-> se.val,
          secFrac |-> 0], LAMBDA pt :
        IF ~InBuf(b, se.cursor) THEN Panic(se.cursor)
        ELSE IF Byte(b, se.cursor) # "." THEN Res(pt, se.cursor, None) ELSE
    Then(parseSecFrac(b, se.cursor + 1, l), LAMBDA fr :
        IF fr.err # None THEN Res(pt, fr.cursor, None)
        ELSE Res([pt EXCEPT !.secFrac = fr.val], fr.cursor, None)))))

\* time.Parse("-07:00", sign hh:mm).Location(), as minutes east of UTC
parseNumericalTimeOffset(b, cursor, l) ==
    IF ~InBuf(b, cursor) THEN Panic(cursor)
    ELSE IF Byte(b, cursor) # "+" /\ Byte(b, cursor) # "-"
    THEN Res(0, cursor, ErrTimeZoneInvalid)
    ELSE Then(getHourMinute(b, cursor + 1, l), LAMBDA hm :
            IF hm.panic THEN hm
            ELSE IF hm.err # None THEN Res(0, hm.cursor, hm.err)
            ELSE Res(IF Byte(b, cursor) = "-"
                     THEN 0 - (hm.val[1] * 60 + hm.val[2])
                     ELSE hm.val[1] * 60 + hm.val[2],
                     hm.cursor, None))

parseTimeOffset(b, cursor, l) ==
    IF ~InBuf(b, cursor) THEN Panic(cursor)
    ELSE IF Byte(b, cursor) = "Z" THEN Res(0, cursor + 1, None)
    ELSE parseNumericalTimeOffset(b, cursor, l)

parseFullTime(b, cursor, l) ==
    Then(parsePartialTime(b, cursor, l), LAMBDA pt :
        IF pt.panic \/ pt.err # None THEN pt ELSE
    Then(parseTimeOffset(b, pt.cursor, l), LAMBDA loc :
        IF loc.panic THEN loc
        ELSE IF loc.err # None THEN Res(None, loc.cursor, loc.err)
        ELSE Res([pt |-> pt.val, loc |-> loc.val], loc.cursor, None)))

\* parseTimestamp giving a nil timestamp the time of the parse
parseTimestamp5424_NilIsNow(b, q) ==
    IF ~InBuf(b, q.cursor) THEN Panic(q.cursor)
    ELSE IF Byte(b, q.cursor) = NILVALUE
    THEN Res(Time(now, 1, 1, 0, 0, 0, 0, 0), q.cursor + 1, None)
    ELSE Then(Expect(b, parseFullDate(b, q.cursor, q.l), "T",
                     ErrInvalidTimeFormat), LAMBDA fd :
            IF fd.panic THEN fd
            ELSE IF fd.err # None THEN Res(None, fd.cursor, fd.err) ELSE
         Then(parseFullTime(b, fd.cursor + 1, q.l), LAMBDA ft :
            IF ft.panic THEN ft
            ELSE IF ft.err # None
            THEN Res(None, ft.cursor, ErrTimestampUnknownFormat)
            ELSE Res(Date(fd.val.year, fd.val.month, fd.val.day,
                          ft.val.pt.hour, ft.val.pt.minute,
                          ft.val.pt.seconds, toNSec(ft.val.pt.secFrac),
                          ft.val.loc),
                     ft.cursor, None)))

\* parseTimestamp that returns the error of the full-time scan as it is
parseTimestamp5424_PassesTimeError(b, q) ==
    IF ~InBuf(b, q.cursor) THEN Panic(q.cursor)
    ELSE IF Byte(b, q.cursor) = NILVALUE
    THEN Res(ZeroTime, q.cursor + 1, None)
    ELSE Then(Expect(b, parseFullDate(b, q.cursor, q.l), "T",
                     ErrInvalidTimeFormat), LAMBDA fd :
            IF fd.panic THEN fd
            ELSE IF fd.err # None THEN Res(None, fd.cursor, fd.err) ELSE
         Then(parseFullTime(b, fd.cursor + 1, q.l), LAMBDA ft :
            IF ft.panic THEN ft
            ELSE IF ft.err # None
            THEN Res(None, ft.cursor, ft.err)
            ELSE Res(Date(fd.val.year, fd.val.month, fd.val.day,
                          ft.val.pt.hour, ft.val.pt.minute,
                          ft.val.pt.seconds, toNSec(ft.val.pt.secFrac),
                          ft.val.loc),
                     ft.cursor, None)))

parseTimestamp5424(b, q) ==
    IF ~InBuf(b, q.cursor) THEN Panic(q.cursor)
    ELSE IF Byte(b, q.cursor) = NILVALUE
    THEN Res(ZeroTime, q.cursor + 1, None)
    ELSE Then(Expect(b, parseFullDate(b, q.cursor, q.l), "T",
                     ErrInvalidTimeFormat), LAMBDA fd :
            IF fd.panic THEN fd
            ELSE IF fd.err # None THEN Res(None, fd.cursor, fd.err) ELSE
         Then(parseFullTime(b, fd.cursor + 1, q.l), LAMBDA ft :
            IF ft.panic THEN ft
            ELSE IF ft.err # None
            THEN Res(None, ft.cursor, ErrTimestampUnknownFormat)
            ELSE Res(Date(fd.val.year, fd.val.month, fd.val.day,
                          ft.val.pt.hour, ft.val.pt.minute,
                          ft.val.pt.seconds, toNSec(ft.val.pt.secFrac),
                          ft.val.loc),
                     ft.cursor, None)))

\* parseHostname without the step over the byte after the hostname
parseHostname5424_NoSkip(b, q) ==
    IF q.tmpHostname # <<>> THEN Res(q.tmpHostname, q.cursor, None)
    ELSE ParseHostname(b, q.cursor, q.l)

parseHostname5424(b, q) ==
    IF q.tmpHostname # <<>> THEN Res(q.tmpHostname, q.cursor, None)
    ELSE LET h == ParseHostname(b, q.cursor, q.l)
         IN  Res(h.val, h.cursor + 1, h.err)

\* the offset at which the loop of parseUpToLen stops
RECURSIVE UpToLenEnd(_, _, _, _)
UpToLenEnd(b, to, max, l) ==
    IF to < max /\ to < l /\ Byte(b, to) # " "
    THEN UpToLenEnd(b, to + 1, max, l) ELSE to

\* parseUpToLen that leaves the cursor where the scan started when no space
\* is found
parseUpToLen_CursorStays(b, cursor, l, maxLen, e) ==
    LET max == cursor + maxLen
        to == UpToLenEnd(b, cursor, max, l)
        found == to < max /\ to < l
    IN  IF found THEN Res(Slice(b, cursor, to), to, None)
        ELSE Res(<<>>, cursor, e)

\* parseUpToLen that puts the cursor back at the start of the buffer when
\* no space is found
parseUpToLen_Rewinds(b, cursor, l, maxLen, e) ==
    LET max == cursor + maxLen
        to == UpToLenEnd(b, cursor, max, l)
        found == to < max /\ to < l
    IN  IF found THEN Res(Slice(b, cursor, to), to, None)
        ELSE Res(<<>>, 0, e)

parseUpToLen(b, cursor, l, maxLen, e) ==
    LET max == cursor + maxLen
        to == UpToLenEnd(b, cursor, max, l)
        found == to < max /\ to < l
    IN  IF found THEN Res(Slice(b, cursor, to), to, None)
        ELSE Res(<<>>, to, e)

parseAppName(b, q) == parseUpToLen(b, q.cursor, q.l, 48, ErrInvalidAppName)

parseProcId(b, q) == parseUpToLen(b, q.cursor, q.l, 128, ErrInvalidProcId)

parseMsgId(b, q) == parseUpToLen(b, q.cursor, q.l, 32, ErrInvalidMsgId)

\* the scan of parseStructuredData stopping at the first ']' it meets
RECURSIVE SdEnd_FirstClose(_, _, _)
SdEnd_FirstClose(b, to, l) ==
    IF to >= l THEN l
    ELSE IF Byte(b, to) = "]" THEN to
    ELSE SdEnd_FirstClose(b, to + 1, l)

\* the index of the first ']' at or after to that ends the buffer or is
\* followed by a space, or l when there is none
RECURSIVE SdEnd(_, _, _)
SdEnd(b, to, l) ==
    IF to >= l THEN l
    ELSE IF Byte(b, to) = "]" /\ (to + 1 = l \/ Byte(b, to + 1) = " ") THEN to
    ELSE SdEnd(b, to + 1, l)

parseStructuredData(b, cursor, l) ==
    IF ~InBuf(b, cursor) THEN Panic(cursor)
    ELSE IF Byte(b, cursor) = NILVALUE THEN Res(<<"-">>, cursor + 1, None)
    ELSE IF Byte(b, cursor) # "[" THEN Res(<<>>, cursor, ErrNoStructuredData)
    ELSE LET k == SdEnd(b, cursor, l)
         IN  IF k < l THEN Res(Slice(b, cursor, k + 1), k + 1, None)
             ELSE Res(<<>>, cursor, ErrNoStructuredData)

Dump5424(q) ==
    [priority |-> q.header.priority.P, facility |-> q.header.priority.F,
     severity |-> q.header.priority.S, version |-> q.header.version,
     timestamp |-> q.header.timestamp, hostname |-> q.header.hostname,
     app_name |-> q.header.appName, proc_id |-> q.header.procId,
     msg_id |-> q.header.msgId, structured_data |-> q.structuredData,
     message |-> q.message]

----------------------------------------------------------------------------
(* The primitive scanners and the detector applied to bounded inputs       *)

MaxPriLen == 6

MaxDetectLen == 10

PriAlphabet == {"<", ">", "0", "1", "9", "a"}

DetectAlphabet == {">", "1", "a"}

\* the variables a scanner call leaves alone
Idle == /\ wire = None /\ p = None /\ opts = None /\ err = None
        /\ now = 0 /\ run = 0 /\ prev = None /\ parts = None

InitPriority ==
    /\ buff \in SeqsUpTo(PriAlphabet, MaxPriLen)
    /\ pc = "ParsePriority"
    /\ ret = None
    /\ Idle

\* ParsePriority(buff, &cursor, len(buff)) with cursor = 0
CallParsePriority ==
    /\ pc = "ParsePriority"
    /\ ret' = ParsePriority(buff, 0, Len(buff))
    /\ pc' = "returned"
    /\ UNCHANGED <<buff, wire, p, opts, err, now, run, prev, parts>>

NextPriority == CallParsePriority

SpecPriority == InitPriority /\ [][NextPriority]_vars

InitDetect ==
    /\ buff \in SeqsUpTo(DetectAlphabet, MaxDetectLen)
    /\ pc = "DetectRFC"
    /\ ret = None
    /\ Idle

\* DetectRFC(buff)
CallDetectRFC ==
    /\ pc = "DetectRFC"
    /\ ret' = DetectRFC(buff)
    /\ pc' = "returned"
    /\ UNCHANGED <<buff, wire, p, opts, err, now, run, prev, parts>>

NextDetect == CallDetectRFC

SpecDetect == InitDetect /\ [][NextDetect]_vars

----------------------------------------------------------------------------
(* The two parsers applied to messages assembled from wire fields          *)

FirstYear == 2027

LastYear == 2028

\* how many bytes the over-long messages exceed the packet limit by
MaxOver == 2

Fill(n) == [i \in 1..n |-> "a"]

Str_Oct11 == <<"O", "c", "t", " ", "1", "1", " ",
               "2", "2", ":", "1", "4", ":", "1", "5">>

Str_Oct1 == <<"O", "c", "t", " ", " ", "1", " ",
              "2", "2", ":", "1", "4", ":", "1", "5">>

Str_Feb29 == <<"F", "e", "b", " ", "2", "9", " ",
               "2", "2", ":", "1", "4", ":", "1", "5">>

Str_Dec31 == <<"D", "e", "c", " ", "3", "1", " ",
               "2", "3", ":", "5", "9", ":", "5", "9">>

Str_Oct34 == <<"O", "c", "t", " ", "3", "4", " ",
               "3", "2", ":", "7", "2", ":", "8", "2">>

\* a wire priority: its bytes and its value, -1 when the bracket is absent
LegacyPris ==
    { [bytes |-> <<"<", "3", "4", ">">>, P |-> 34],
      [bytes |-> <<"<", "1", "9", "1", ">">>, P |-> 191],
      [bytes |-> <<>>, P |-> -1] }

\* a wire timestamp 'Mmm dd hh:mm:ss': its bytes and its fields
LegacyStamps ==
    { [bytes |-> Str_Oct11, valid |-> TRUE, month |-> 10, day |-> 11,
       hour |-> 22, minute |-> 14, second |-> 15],
      [bytes |-> Str_Oct1, valid |-> TRUE, month |-> 10, day |-> 1,
       hour |-> 22, minute |-> 14, second |-> 15],
      [bytes |-> Str_Feb29, valid |-> TRUE, month |-> 2, day |-> 29,
       hour |-> 22, minute |-> 14, second |-> 15],
      [bytes |-> Str_Dec31, valid |-> TRUE, month |-> 12, day |-> 31,
       hour |-> 23, minute |-> 59, second |-> 59],
      [bytes |-> Str_Oct34, valid |-> FALSE, month |-> 0, day |-> 0,
       hour |-> 0, minute |-> 0, second |-> 0] }

LegacyHosts == { <<"h", "o", "s", "t">>, <<>> }

LegacyTags == { <<"s", "u">>, <<>> }

LegacyPids == { <<>>, <<"[", "1", "]">> }

LegacyContents == { <<"h", "i">>, <<" ", "a", " ", "b", " ">>, <<>> }

\* the bytes of '<P>Mmm dd hh:mm:ss HOST TAG[PID]: ' before the content
Prefix3164(pr, t, h, tg, pd) ==
    pr.bytes \o t.bytes \o <<" ">> \o h \o <<" ">> \o tg \o pd \o <<":", " ">>

\* contents that carry the message past the packet limit: all 'a', or with
\* a space in the last byte inside the limit
LongContents(pre, max) ==
    { Fill(max - pre + MaxOver),
      Fill(max - pre - 1) \o <<" ", "a", "a", "a">> }

LegacyWires ==
    { [fmt |-> "rfc3164", pri |-> pr, ts |-> t, host |-> h, tag |-> tg,
       pid |-> pd, content |-> c] :
        pr \in LegacyPris, t \in LegacyStamps, h \in LegacyHosts,
        tg \in LegacyTags, pd \in LegacyPids, c \in LegacyContents }
    \cup
    UNION { { [fmt |-> "rfc3164", pri |-> pr, ts |-> t,
               host |-> <<"h", "o", "s", "t">>, tag |-> <<"s", "u">>,
               pid |-> pd, content |-> c] :
                c \in LongContents(
                        Len(Prefix3164(pr, t, <<"h", "o", "s", "t">>,
                                       <<"s", "u">>, pd)),
                        RFC3164_MAX_PACKET_LEN) } :
            pr \in LegacyPris, t \in LegacyStamps, pd \in LegacyPids }

Assemble3164(w) ==
    Prefix3164(w.pri, w.ts, w.host, w.tag, w.pid) \o w.content

NoOpts == [priority |-> NilPriority, hostname |-> <<>>, tag |-> <<>>]

OverridePriority == NewPriority(165)

OverrideHostname == <<"o", "h">>

OverrideTag == <<"o", "t">>

InitLegacy ==
    \E w \in LegacyWires :
        /\ wire = w
        /\ buff = Assemble3164(w)
        /\ p = NewParser3164(Assemble3164(w))
        /\ opts = NoOpts
        /\ pc = "rfc3164.new"
        /\ err = None
        /\ now = FirstYear
        /\ run = 1
        /\ prev = None
        /\ parts = None
        /\ ret = None

\* the calendar year changes between two parses
Tick ==
    /\ pc \in {"rfc3164.new", "rfc5424.new"}
    /\ now < LastYear
    /\ now' = now + 1
    /\ UNCHANGED <<buff, wire, p, opts, pc, err, run, prev, parts, ret>>

WithPriority3164 ==
    /\ pc = "rfc3164.new" /\ run = 1 /\ opts.priority = NilPriority
    /\ p' = [p EXCEPT !.priority = OverridePriority]
    /\ opts' = [opts EXCEPT !.priority = OverridePriority]
    /\ UNCHANGED <<buff, wire, pc, err, now, run, prev, parts, ret>>

WithHostname3164 ==
    /\ pc = "rfc3164.new" /\ run = 1 /\ opts.hostname = <<>>
    /\ p' = [p EXCEPT !.hostname = OverrideHostname]
    /\ opts' = [opts EXCEPT !.hostname = OverrideHostname]
    /\ UNCHANGED <<buff, wire, pc, err, now, run, prev, parts, ret>>

WithTag3164 ==
    /\ pc = "rfc3164.new" /\ run = 1 /\ opts.tag = <<>>
    /\ p' = [p EXCEPT !.tmpTag = OverrideTag]
    /\ opts' = [opts EXCEPT !.tag = OverrideTag]
    /\ UNCHANGED <<buff, wire, pc, err, now, run, prev, parts, ret>>

\* the operation stops with the error e, the cursor at c
Fail(e, c) ==
    /\ pc' = "failed"
    /\ err' = e
    /\ p' = [p EXCEPT !.cursor = c]
    /\ UNCHANGED <<buff, wire, opts, now, run, prev, parts, ret>>

\* the operation reads past the end of the buffer
Crash ==
    /\ pc' = "panic"
    /\ UNCHANGED <<buff, wire, p, opts, err, now, run, prev, parts, ret>>

\* Parse, up to the priority
Parse3164_parsePriority ==
    /\ pc = "rfc3164.new"
    /\ LET q == [p EXCEPT !.version = NO_VERSION]
           r == parsePriority3164(buff, q)
       IN  IF r.err # None
           THEN /\ pc' = "failed"
                /\ err' = r.err
                /\ p' = [q EXCEPT !.cursor = r.cursor]
                /\ UNCHANGED <<buff, wire, opts, now, run, prev, parts, ret>>
           ELSE /\ pc' = "rfc3164.parseTimestamp"
                /\ p' = [q EXCEPT !.cursor = r.cursor, !.priority = r.val]
                /\ UNCHANGED <<buff, wire, opts, err, now, run, prev, parts,
                               ret>>

\* parseHeader, up to the timestamp
Parse3164_parseTimestamp ==
    /\ pc = "rfc3164.parseTimestamp"
    /\ IF ~InBuf(buff, p.cursor) THEN Crash
       ELSE \E r \in {parseTimestamp3164(
                          buff,
                          [p EXCEPT !.cursor = IF Byte(buff, p.cursor) = " "
                                               THEN p.cursor + 1
                                               ELSE p.cursor],
                          now)} :
                IF r.err # None THEN Fail(r.err, r.cursor)
                ELSE /\ pc' = "rfc3164.parseHostname"
                     /\ p' = [p EXCEPT !.cursor = r.cursor]
                     /\ ret' = [ts |-> r.val]
                     /\ UNCHANGED <<buff, wire, opts, err, now, run, prev,
                                    parts>>

\* parseHeader, the hostname; Parse stores the header
Parse3164_parseHostname ==
    /\ pc = "rfc3164.parseHostname"
    /\ LET r == parseHostname3164(buff, p)
       IN  /\ pc' = "rfc3164.skipSpace"
           /\ p' = [p EXCEPT !.cursor = r.cursor,
                             !.header = [timestamp |-> ret.ts,
                                         hostname |-> r.val]]
           /\ UNCHANGED <<buff, wire, opts, err, now, run, prev, parts, ret>>

\* Parse: if p.buff[p.cursor] == ' ' { p.cursor++ }
Parse3164_skipSpace ==
    /\ pc = "rfc3164.skipSpace"
    /\ IF ~InBuf(buff, p.cursor) THEN Crash
       ELSE /\ pc' = "rfc3164.parseTag"
            /\ p' = [p EXCEPT !.cursor = IF Byte(buff, p.cursor) = " "
                                         THEN p.cursor + 1 ELSE p.cursor]
            /\ UNCHANGED <<buff, wire, opts, err, now, run, prev, parts, ret>>

\* parsemessage, the tag
Parse3164_parseTag ==
    /\ pc = "rfc3164.parseTag"
    /\ LET r == parseTag(buff, p)
       IN  IF r.panic THEN Crash
           ELSE /\ pc' = "rfc3164.parseContent"
                /\ p' = [p EXCEPT !.cursor = r.cursor]
                /\ ret' = [tag |-> r.val]
                /\ UNCHANGED <<buff, wire, opts, err, now, run, prev, parts>>

\* parsemessage, the content; Parse stores the message and returns nil
Parse3164_parseContent ==
    /\ pc = "rfc3164.parseContent"
    /\ LET r == parseContent(buff, p)
       IN  /\ pc' = "done"
           /\ p' = [p EXCEPT !.cursor = r.cursor,
                             !.message = [tag |-> ret.tag, content |-> r.val]]
           /\ UNCHANGED <<buff, wire, opts, err, now, run, prev, parts, ret>>

Dump ==
    /\ pc = "done"
    /\ parts' = IF wire.fmt = "rfc3164" THEN Dump3164(p) ELSE Dump5424(p)
    /\ pc' = "dumped"
    /\ UNCHANGED <<buff, wire, p, opts, err, now, run, prev, ret>>

\* what a caller observes of a finished instance
Outcome == [err |-> err, panic |-> pc = "panic", parts |-> parts]

\* a second, fresh instance is bound to the same buffer and given the same
\* overrides
Reparse ==
    /\ pc \in {"failed", "panic", "dumped"}
    /\ run = 1
    /\ run' = 2
    /\ prev' = [out |-> Outcome, year |-> now]
    /\ IF wire.fmt = "rfc3164"
       THEN /\ p' = [NewParser3164(buff) EXCEPT !.priority = opts.priority,
                                                !.hostname = opts.hostname,
                                                !.tmpTag = opts.tag]
            /\ pc' = "rfc3164.new"
       ELSE /\ p' = [NewParser5424(buff) EXCEPT !.tmpPriority = opts.priority,
                                                !.tmpHostname = opts.hostname]
            /\ pc' = "rfc5424.new"
    /\ err' = None
    /\ parts' = None
    /\ ret' = None
    /\ UNCHANGED <<buff, wire, opts, now>>

Str_TsZ == <<"2", "0", "0", "3", "-", "1", "0", "-", "1", "1", "T",
             "2", "2", ":", "1", "4", ":", "1", "5", ".", "0", "0", "3", "Z">>

Str_TsOffset == <<"2", "0", "0", "3", "-", "0", "8", "-", "2", "4", "T",
                  "0", "5", ":", "1", "4", ":", "1", "5", ".", "0", "0", "0",
                  "0", "0", "3", "-", "0", "7", ":", "0", "0">>

Str_TsFeb31 == <<"2", "0", "0", "3", "-", "0", "2", "-", "3", "1", "T",
                 "2", "2", ":", "1", "4", ":", "1", "5", "Z">>

Str_TsMonth13 == <<"2", "0", "0", "3", "-", "1", "3", "-", "1", "1", "T",
                   "2", "2", ":", "1", "4", ":", "1", "5", "Z">>

StructuredPris ==
    { [bytes |-> <<"<", "1", "6", "5", ">">>, P |-> 165],
      [bytes |-> <<>>, P |-> -1] }

\* a wire timestamp: its bytes and the instant it denotes; the nil marker
\* denotes the zero time
StructuredStamps ==
    { [bytes |-> Str_TsZ, valid |-> TRUE,
       time |-> Time(2003, 10, 11, 22, 14, 15, 3000000, 0)],
      [bytes |-> Str_TsOffset, valid |-> TRUE,
       time |-> Time(2003, 8, 24, 5, 14, 15, 3000, -420)],
      [bytes |-> Str_TsFeb31, valid |-> TRUE,
       time |-> Time(2003, 2, 31, 22, 14, 15, 0, 0)],
      [bytes |-> <<"-">>, valid |-> TRUE, time |-> ZeroTime],
      [bytes |-> Str_TsMonth13, valid |-> FALSE, time |-> ZeroTime] }

StructuredHosts == { <<"h", "o", "s", "t">>, <<"-">> }

StructuredApps == { <<"s", "u">>, <<"-">> }

StructuredProcs == { <<"1", "2", "3">>, <<"-">> }

StructuredMsgIds == { <<"I", "D", "4", "7">>, <<"-">> }

StructuredDatas ==
    { <<"-">>, <<"[", "x", "]">>, <<"[", "x", "]", "[", "y", "]">> }

\* what follows the structured data: nothing, or a space and the message
StructuredTails ==
    { <<>>, <<" ", "h", "i">>, <<" ", " ", "a", " ", "b", " ">> }

\* the bytes of '<P>V TS HOST APP PROCID MSGID SD' before the tail
Prefix5424(pr, v, t, h, a, pi, mi, sd) ==
    pr.bytes \o v \o <<" ">> \o t.bytes \o <<" ">> \o h \o <<" ">> \o a
    \o <<" ">> \o pi \o <<" ">> \o mi \o <<" ">> \o sd

StructuredWires ==
    { [fmt |-> "rfc5424", pri |-> pr, version |-> <<"1">>, ts |-> t,
       host |-> h, app |-> a, proc |-> pi, msgid |-> mi, sd |-> sd,
       tail |-> tl] :
        pr \in StructuredPris, t \in StructuredStamps, h \in StructuredHosts,
        a \in StructuredApps, pi \in StructuredProcs,
        mi \in StructuredMsgIds, sd \in StructuredDatas,
        tl \in StructuredTails }
    \cup
    UNION { { [fmt |-> "rfc5424", pri |-> pr, version |-> <<"1">>, ts |-> t,
               host |-> <<"-">>, app |-> <<"-">>, proc |-> <<"-">>,
               msgid |-> <<"-">>, sd |-> <<"-">>, tail |-> <<" ">> \o c] :
                c \in LongContents(
                        Len(Prefix5424(pr, <<"1">>, t, <<"-">>, <<"-">>,
                                       <<"-">>, <<"-">>, <<"-">>)) + 1,
                        RFC5424_MAX_PACKET_LEN) } :
            pr \in StructuredPris, t \in StructuredStamps }

Assemble5424(w) ==
    Prefix5424(w.pri, w.version, w.ts, w.host, w.app, w.proc, w.msgid, w.sd)
    \o w.tail

InitStructured ==
    \E w \in StructuredWires :
        /\ wire = w
        /\ buff = Assemble5424(w)
        /\ p = NewParser5424(Assemble5424(w))
        /\ opts = NoOpts
        /\ pc = "rfc5424.new"
        /\ err = None
        /\ now = FirstYear
        /\ run = 1
        /\ prev = None
        /\ parts = None
        /\ ret = None

WithPriority5424 ==
    /\ pc = "rfc5424.new" /\ run = 1 /\ opts.priority = NilPriority
    /\ p' = [p EXCEPT !.tmpPriority = OverridePriority]
    /\ opts' = [opts EXCEPT !.priority = OverridePriority]
    /\ UNCHANGED <<buff, wire, pc, err, now, run, prev, parts, ret>>

WithHostname5424 ==
    /\ pc = "rfc5424.new" /\ run = 1 /\ opts.hostname = <<>>
    /\ p' = [p EXCEPT !.tmpHostname = OverrideHostname]
    /\ opts' = [opts EXCEPT !.hostname = OverrideHostname]
    /\ UNCHANGED <<buff, wire, pc, err, now, run, prev, parts, ret>>

\* the scan r of parseHeader went well: its value becomes the local f, the
\* cursor moves to c and the next scan is at
Scanned(f, r, c, at) ==
    /\ pc' = at
    /\ p' = [p EXCEPT !.cursor = c]
    /\ ret' = [ret EXCEPT ![f] = r.val]
    /\ UNCHANGED <<buff, wire, opts, err, now, run, prev, parts>>

\* the locals of parseHeader before its first scan
NoHeader ==
    [priority |-> NilPriority, version |-> 0, timestamp |-> ZeroTime,
     hostname |-> <<>>, appName |-> <<>>, procId |-> <<>>, msgId |-> <<>>]

\* parseHeader, the priority
Parse5424_parsePriority ==
    /\ pc = "rfc5424.new"
    /\ LET r == parsePriority5424(buff, p)
       IN  IF r.err # None THEN Fail(r.err, r.cursor)
           ELSE /\ pc' = "rfc5424.parseVersion"
                /\ p' = [p EXCEPT !.cursor = r.cursor]
                /\ ret' = [NoHeader EXCEPT !.priority = r.val]
                /\ UNCHANGED <<buff, wire, opts, err, now, run, prev, parts>>

\* parseHeader, the version and the byte after it
Parse5424_parseVersion ==
    /\ pc = "rfc5424.parseVersion"
    /\ LET r == parseVersion5424(buff, p)
       IN  IF r.panic THEN Crash
           ELSE IF r.err # None THEN Fail(r.err, r.cursor)
           ELSE Scanned("version", r, r.cursor + 1, "rfc5424.parseTimestamp")

\* parseHeader, the timestamp and the byte after it
Parse5424_parseTimestamp ==
    /\ pc = "rfc5424.parseTimestamp"
    /\ \E r \in {parseTimestamp5424(buff, p)} :
           IF r.panic THEN Crash
           ELSE IF r.err # None THEN Fail(r.err, r.cursor)
           ELSE Scanned("timestamp", r, r.cursor + 1, "rfc5424.parseHostname")

\* parseHeader, the hostname
Parse5424_parseHostname ==
    /\ pc = "rfc5424.parseHostname"
    /\ LET r == parseHostname5424(buff, p)
       IN  Scanned("hostname", r, r.cursor, "rfc5424.parseAppName")

\* parseHeader, the app-name and the byte after it
Parse5424_parseAppName ==
    /\ pc = "rfc5424.parseAppName"
    /\ LET r == parseAppName(buff, p)
       IN  IF r.err # None THEN Fail(r.err, r.cursor)
           ELSE Scanned("appName", r, r.cursor + 1, "rfc5424.parseProcId")

\* parseHeader, the proc-id and the byte after it
Parse5424_parseProcId ==
    /\ pc = "rfc5424.parseProcId"
    /\ LET r == parseProcId(buff, p)
       IN  IF r.err # None THEN Fail(r.err, r.cursor)
           ELSE Scanned("procId", r, r.cursor + 1, "rfc5424.parseMsgId")

\* parseHeader, the msg-id and the byte after it; Parse stores the header
Parse5424_parseMsgId ==
    /\ pc = "rfc5424.parseMsgId"
    /\ LET r == parseMsgId(buff, p)
       IN  IF r.err # None THEN Fail(r.err, r.cursor)
           ELSE /\ pc' = "rfc5424.parseStructuredData"
                /\ p' = [p EXCEPT !.cursor = r.cursor + 1,
                                  !.header = [ret EXCEPT !.msgId = r.val]]
                /\ ret' = [ret EXCEPT !.msgId = r.val]
                /\ UNCHANGED <<buff, wire, opts, err, now, run, prev, parts>>

\* Parse, the structured data
Parse5424_parseStructuredData ==
    /\ pc = "rfc5424.parseStructuredData"
    /\ LET r == parseStructuredData(buff, p.cursor, p.l)
       IN  IF r.panic THEN Crash
           ELSE IF r.err # None THEN Fail(r.err, r.cursor)
           ELSE /\ pc' = "rfc5424.message"
                /\ p' = [p EXCEPT !.cursor = r.cursor,
                                  !.structuredData = r.val]
                /\ UNCHANGED <<buff, wire, opts, err, now, run, prev, parts,
                               ret>>

\* Parse, the byte after the structured data and the message; returns nil
\* the last step of Parse taking the rest of the buffer as it is
Parse5424_message_NoTrim ==
    /\ pc = "rfc5424.message"
    /\ LET c == p.cursor + 1
       IN  p' = [p EXCEPT !.cursor = c,
                          !.message = IF c < p.l
                                      THEN Slice(buff, c, p.l)
                                      ELSE p.message]
    /\ pc' = "done"
    /\ UNCHANGED <<buff, wire, opts, err, now, run, prev, parts, ret>>

Parse5424_message ==
    /\ pc = "rfc5424.message"
    /\ LET c == p.cursor + 1
       IN  p' = [p EXCEPT !.cursor = c,
                          !.message = IF c < p.l
                                      THEN Trim(Slice(buff, c, p.l))
                                      ELSE p.message]
    /\ pc' = "done"
    /\ UNCHANGED <<buff, wire, opts, err, now, run, prev, parts, ret>>

Init == InitLegacy \/ InitStructured

Next ==
    \/ Tick
    \/ WithPriority3164
    \/ WithHostname3164
    \/ WithTag3164
    \/ Parse3164_parsePriority
    \/ Parse3164_parseTimestamp
    \/ Parse3164_parseHostname
    \/ Parse3164_skipSpace
    \/ Parse3164_parseTag
    \/ Parse3164_parseContent
    \/ WithPriority5424
    \/ WithHostname5424
    \/ Parse5424_parsePriority
    \/ Parse5424_parseVersion
    \/ Parse5424_parseTimestamp
    \/ Parse5424_parseHostname
    \/ Parse5424_parseAppName
    \/ Parse5424_parseProcId
    \/ Parse5424_parseMsgId
    \/ Parse5424_parseStructuredData
    \/ Parse5424_message
    \/ Dump
    \/ Reparse

Spec == Init /\ [][Next]_vars

----------------------------------------------------------------------------
(* The two parsers bound to messages that end early or carry no version   *)

\* the messages that are cut: legacy ones with a good or a bad timestamp,
\* structured ones with the version "1", the byte 'a' in its place, or
\* nothing between the priority and the space, and structured ones whose
\* structured data is followed by a byte that is not a space
CutWires ==
    LET base == { x \in StructuredWires :
                    /\ x.host = <<"h", "o", "s", "t">>
                    /\ x.app = <<"s", "u">>
                    /\ x.proc = <<"1", "2", "3">>
                    /\ x.msgid = <<"I", "D", "4", "7">>
                    /\ x.sd = <<"[", "x", "]">>
                    /\ x.tail = <<" ", "h", "i">>
                    /\ x.ts.bytes \in {Str_TsZ, <<"-">>, Str_TsMonth13} }
    IN  { w \in LegacyWires :
            /\ w.host = <<"h", "o", "s", "t">> /\ w.tag = <<"s", "u">>
            /\ w.content = <<"h", "i">>
            /\ w.ts.bytes \in {Str_Oct11, Str_Oct34} }
        \cup
        { [w EXCEPT !.version = v] :
            w \in base, v \in { <<"1">>, <<"a">>, <<>> } }
        \cup
        { [w EXCEPT !.sd = <<"-">>, !.tail = <<"x", " ", "a", " ">>] :
            w \in base }

\* NewParser on the first n bytes of a message, for every n
InitCut ==
    \E w \in CutWires :
        \E m \in { IF w.fmt = "rfc3164" THEN Assemble3164(w)
                   ELSE Assemble5424(w) } :
            \E n \in 0..Len(m) :
                /\ wire = w
                /\ buff = SubSeq(m, 1, n)
                /\ p = IF w.fmt = "rfc3164"
                       THEN NewParser3164(SubSeq(m, 1, n))
                       ELSE NewParser5424(SubSeq(m, 1, n))
                /\ pc = IF w.fmt = "rfc3164" THEN "rfc3164.new"
                        ELSE "rfc5424.new"
                /\ opts = NoOpts
                /\ err = None
                /\ now = FirstYear
                /\ run = 1
                /\ prev = None
                /\ parts = None
                /\ ret = None

SpecCut == InitCut /\ [][Next]_vars

----------------------------------------------------------------------------
(* The scan functions of the structured parser called on their own, as    *)
(* the table tests of src/rfc5424/rfc5424_test.go call them               *)

\* the longest structured-data input
MaxSdLen == 7

\* the longest fractional-second input
MaxFracLen == 7

SdAlphabet == {"[", "]", " ", "x"}

FracAlphabet == {"0", "2", "3", "5", "Z"}

\* the scans of the bounded fields of the structured header
BoundedFields == {"parseAppName", "parseProcId", "parseMsgId"}

\* inputs of a bounded field: the bytes already scanned, a token of n bytes
\* or the nil marker, and the rest of the message
BoundedInputs ==
    { pre \o tk \o post :
        pre \in { <<>>, <<"x", " ">> },
        tk \in { [i \in 1..n |-> "a"] : n \in 0..(128 + MaxOver) }
               \cup { <<"-">> },
        post \in { <<>>, <<" ">>, <<" ", "y">> } }

\* the longest tag input
MaxTagLen == 6

\* the longest input of a fixed-width scan
MaxFixLen == 4

TagAlphabet == {"[", "]", ":", " ", "a"}

FixAlphabet == {"0", "1", "2", "3", "5", "6", "+", "a"}

\* the fixed-width scans of the date and the time
FixedScans == {"parseYear", "parseMonth", "parseDay", "parseHour",
               "parseMinute", "parseSecond"}

\* full dates: the bytes, the error the date scan is to give (None for a
\* good date) and whether the buffer ends with them
DateCases ==
    { [bytes |-> <<"2", "0", "0", "3", "-", "1", "0", "-", "1", "1">>, err |-> None, cut |-> FALSE],
      [bytes |-> <<"2", "0", "a", "3", "-", "1", "0", "-", "1", "1">>, err |-> ErrYearInvalid, cut |-> FALSE],
      [bytes |-> <<"2", "0", "0", "3", "-", "1", "3", "-", "1", "1">>, err |-> ErrMonthInvalid, cut |-> FALSE],
      [bytes |-> <<"2", "0", "0", "3", "-", "1", "0", "-", "3", "2">>, err |-> ErrDayInvalid, cut |-> FALSE],
      [bytes |-> <<"2", "0", "0", "3", "x", "1", "0", "-", "1", "1">>, err |-> ErrTimestampUnknownFormat, cut |-> FALSE],
      [bytes |-> <<"2", "0", "0", "3", "-", "1", "0", "x", "1", "1">>, err |-> ErrTimestampUnknownFormat, cut |-> FALSE],
      [bytes |-> <<"2", "0", "0">>, err |-> ErrEOL, cut |-> TRUE],
      [bytes |-> <<"2", "0", "0", "3", "-", "1">>, err |-> ErrEOL, cut |-> TRUE],
      [bytes |-> <<"2", "0", "0", "3", "-", "1", "0", "-", "1">>, err |-> ErrEOL, cut |-> TRUE] }

\* partial times before the fraction: the bytes, whether they scan and
\* whether the buffer ends with them
TimeCases ==
    { [bytes |-> <<"2", "2", ":", "1", "4", ":", "1", "5">>, ok |-> TRUE, cut |-> FALSE],
      [bytes |-> <<"2", "5", ":", "1", "4", ":", "1", "5">>, ok |-> FALSE, cut |-> FALSE],
      [bytes |-> <<"2", "2", ":", "6", "1", ":", "1", "5">>, ok |-> FALSE, cut |-> FALSE],
      [bytes |-> <<"2", "2", ":", "1", "4", ":", "6", "1">>, ok |-> FALSE, cut |-> FALSE],
      [bytes |-> <<"2", "2", "x", "1", "4", ":", "1", "5">>, ok |-> FALSE, cut |-> FALSE],
      [bytes |-> <<"2", "2", ":", "1", "4", "x", "1", "5">>, ok |-> FALSE, cut |-> FALSE],
      [bytes |-> <<"2", "2", ":", "1">>, ok |-> FALSE, cut |-> TRUE] }

\* what follows the seconds: nothing, three digits, seven digits, a '.'
\* with no digit
FracCases ==
    { <<>>,
      <<".", "0", "0", "3">>,
      <<".", "0", "0", "0", "0", "0", "0", "3">>,
      <<".">> }

\* time offsets: the bytes, whether they scan and whether the buffer ends
\* with them
ZoneCases ==
    { [bytes |-> <<"Z">>, ok |-> TRUE, cut |-> FALSE],
      [bytes |-> <<"+", "0", "1", ":", "0", "0">>, ok |-> TRUE, cut |-> FALSE],
      [bytes |-> <<"-", "0", "1", ":", "3", "0">>, ok |-> TRUE, cut |-> FALSE],
      [bytes |-> <<"x">>, ok |-> FALSE, cut |-> FALSE],
      [bytes |-> <<"+", "2", "5", ":", "0", "0">>, ok |-> FALSE, cut |-> FALSE],
      [bytes |-> <<"+", "0", "1", "x", "0", "0">>, ok |-> FALSE, cut |-> FALSE],
      [bytes |-> <<"+", "0", "1", ":", "6">>, ok |-> FALSE, cut |-> TRUE] }

StampWires ==
    [date : DateCases, sep : {"T", "x"}, time : TimeCases, frac : FracCases,
     zone : ZoneCases]

\* the bytes of the full time of w and of the space after it
TimeBytes(w) ==
    IF w.time.cut THEN w.time.bytes
    ELSE w.time.bytes \o w.frac \o w.zone.bytes
         \o (IF w.zone.cut THEN <<>> ELSE <<" ">>)

\* the bytes of the timestamp of w
StampBytes(w) ==
    IF w.date.cut THEN w.date.bytes
    ELSE w.date.bytes \o <<w.sep>> \o TimeBytes(w)

\* a scan function is about to be called on a buffer, the cursor at an
\* offset of it and the limit at its end
InitScan ==
    /\ \/ /\ buff \in SeqsUpTo(SdAlphabet, MaxSdLen)
          /\ wire = [scan |-> "parseStructuredData"]
          /\ \E c \in 0..1 : p = [cursor |-> c, l |-> Len(buff)]
       \/ /\ buff \in SeqsUpTo(FracAlphabet, MaxFracLen)
          /\ wire = [scan |-> "parseSecFrac"]
          /\ p = [cursor |-> 0, l |-> Len(buff)]
       \/ /\ buff \in BoundedInputs
          /\ \E f \in BoundedFields : wire = [scan |-> f]
          /\ \E c \in {0, 2} : p = [cursor |-> c, l |-> Len(buff)]
       \/ /\ buff \in SeqsUpTo(TagAlphabet, MaxTagLen)
          /\ wire = [scan |-> "parseTag"]
          /\ \E c \in 0..1 :
                p = [cursor |-> c, l |-> Len(buff), tmpTag |-> <<>>]
       \/ /\ buff \in SeqsUpTo(FixAlphabet, MaxFixLen)
          /\ \E f \in FixedScans : wire = [scan |-> f]
          /\ \E c \in 0..1 : p = [cursor |-> c, l |-> Len(buff)]
       \/ \E w \in StampWires : \E pre \in { <<>>, <<"1", " ">> } :
            \/ /\ buff = pre \o StampBytes(w)
               /\ wire = [scan |-> "parseTimestamp", date |-> w.date,
                          sep |-> w.sep, time |-> w.time, frac |-> w.frac,
                          zone |-> w.zone]
               /\ p = [cursor |-> Len(pre), l |-> Len(pre \o StampBytes(w))]
            \/ /\ w.date.err = None /\ w.sep = "T"
               /\ buff = pre \o TimeBytes(w)
               /\ wire = [scan |-> "parsePartialTime", date |-> w.date,
                          sep |-> w.sep, time |-> w.time, frac |-> w.frac,
                          zone |-> w.zone]
               /\ p = [cursor |-> Len(pre), l |-> Len(pre \o TimeBytes(w))]
    /\ pc = "call"
    /\ ret = None
    /\ opts = None /\ err = None
    /\ now = 0 /\ run = 0 /\ prev = None /\ parts = None

\* parseStructuredData(buff, &cursor, l)
CallParseStructuredData ==
    /\ pc = "call" /\ wire.scan = "parseStructuredData"
    /\ ret' = parseStructuredData(buff, p.cursor, p.l)
    /\ pc' = "returned"
    /\ UNCHANGED <<buff, wire, p, opts, err, now, run, prev, parts>>

\* parseSecFrac(buff, &cursor, l)
CallParseSecFrac ==
    /\ pc = "call" /\ wire.scan = "parseSecFrac"
    /\ ret' = parseSecFrac(buff, p.cursor, p.l)
    /\ pc' = "returned"
    /\ UNCHANGED <<buff, wire, p, opts, err, now, run, prev, parts>>

\* p.parseAppName(), p.parseProcId() or p.parseMsgId()
CallParseUpToLen ==
    /\ pc = "call" /\ wire.scan \in BoundedFields
    /\ ret' = CASE wire.scan = "parseAppName" -> parseAppName(buff, p)
                [] wire.scan = "parseProcId" -> parseProcId(buff, p)
                [] wire.scan = "parseMsgId" -> parseMsgId(buff, p)
    /\ pc' = "returned"
    /\ UNCHANGED <<buff, wire, p, opts, err, now, run, prev, parts>>

\* p.parseTag()
CallParseTag ==
    /\ pc = "call" /\ wire.scan = "parseTag"
    /\ ret' = parseTag(buff, p)
    /\ pc' = "returned"
    /\ UNCHANGED <<buff, wire, p, opts, err, now, run, prev, parts>>

\* parseYear, parseMonth, parseDay, parseHour, parseMinute or parseSecond
\* (buff, &cursor, l)
CallFixedScan ==
    /\ pc = "call" /\ wire.scan \in FixedScans
    /\ ret' = CASE wire.scan = "parseYear" -> parseYear(buff, p.cursor, p.l)
                [] wire.scan = "parseMonth" -> parseMonth(buff, p.cursor, p.l)
                [] wire.scan = "parseDay" -> parseDay(buff, p.cursor, p.l)
                [] wire.scan = "parseHour" -> parseHour(buff, p.cursor, p.l)
                [] wire.scan = "parseMinute" ->
                       parseMinute(buff, p.cursor, p.l)
                [] wire.scan = "parseSecond" ->
                       parseSecond(buff, p.cursor, p.l)
    /\ pc' = "returned"
    /\ UNCHANGED <<buff, wire, p, opts, err, now, run, prev, parts>>

\* p.parseTimestamp()
CallParseTimestamp ==
    /\ pc = "call" /\ wire.scan = "parseTimestamp"
    /\ ret' = parseTimestamp5424(buff, p)
    /\ pc' = "returned"
    /\ UNCHANGED <<buff, wire, p, opts, err, now, run, prev, parts>>

\* parsePartialTime(buff, &cursor, l)
CallParsePartialTime ==
    /\ pc = "call" /\ wire.scan = "parsePartialTime"
    /\ ret' = parsePartialTime(buff, p.cursor, p.l)
    /\ pc' = "returned"
    /\ UNCHANGED <<buff, wire, p, opts, err, now, run, prev, parts>>

NextScan ==
    \/ CallParseStructuredData
    \/ CallParseSecFrac
    \/ CallParseUpToLen
    \/ CallParseTag
    \/ CallFixedScan
    \/ CallParseTimestamp
    \/ CallParsePartialTime

SpecScan == InitScan /\ [][NextScan]_vars

----------------------------------------------------------------------------
(* Claims about the priority scan                                          *)

\* the number of decimal digits that follow the opening bracket of buff
LeadDigits == DigitsEnd(buff, 1, Len(buff)) - 1

\* buff is '<', one to three digits whose value is at most 191, '>', then
\* anything
ValidBracket ==
    /\ Len(buff) >= 3
    /\ buff[1] = "<"
    /\ LeadDigits \in 1..3
    /\ Len(buff) >= LeadDigits + 2
    /\ buff[LeadDigits + 2] = ">"
    /\ Atoi(SubSeq(buff, 2, LeadDigits + 1)) <= 191

\* C1: a buffer that starts with '<', 1 to 3 digits forming N <= 191 and
\* '>' scans successfully to P = N, Facility = N div 8, Severity = N mod 8
\* and leaves the cursor just past the '>'.
C1_PriorityScanValid ==
    (pc = "returned" /\ ValidBracket) =>
        LET n == Atoi(SubSeq(buff, 2, LeadDigits + 1))
        IN  /\ ret.err = None
            /\ ret.val = [P |-> n, F |-> n \div 8, S |-> n % 8]
            /\ ret.cursor = LeadDigits + 2

C1_Witness ==
    /\ pc = "returned"
    /\ buff = <<"<", "1", "9", "1", ">", "a">>
    /\ ret.val = [P |-> 191, F |-> 23, S |-> 7]
    /\ ret.cursor = 5

\* the first '>' of buff, or 0 when there is none
FirstClose ==
    LET S == {i \in 1..Len(buff) : buff[i] = ">"}
    IN  IF S = {} THEN 0 ELSE MinOf(S)

\* the bytes between the opening bracket and the first '>' (or the end)
BeforeClose ==
    IF FirstClose = 0 THEN 2..Len(buff) ELSE 2..(FirstClose - 1)

\* C2: a failed priority scan returns no priority, leaves the cursor at its
\* starting offset 0, and its error names the cause: empty buffer, first
\* byte not '<', no '>' found, '<>' with zero digits, more than 3 digits
\* after '<' (as in '<1233>'), or a non-digit byte before the '>'.
C2_PriorityScanFailure ==
    pc = "returned" =>
        /\ ret.err # None =>
            /\ ret.val = NilPriority
            /\ ret.cursor = 0
            /\ ret.err \in {ErrPriorityEmpty, ErrPriorityNoStart,
                            ErrPriorityNoEnd, ErrPriorityTooShort,
                            ErrPriorityTooLong, ErrPriorityNonDigit}
            /\ ret.err = ErrPriorityEmpty => buff = <<>>
            /\ ret.err = ErrPriorityNoStart => (buff # <<>> /\ buff[1] # "<")
            /\ ret.err = ErrPriorityNoEnd => FirstClose = 0
            /\ ret.err = ErrPriorityTooShort =>
                   (LeadDigits = 0 /\ FirstClose = 2)
            /\ ret.err = ErrPriorityTooLong => LeadDigits > 3
            /\ ret.err = ErrPriorityNonDigit =>
                   \E i \in BeforeClose : ~IsDigit(buff[i])
        /\ buff = <<>> => ret.err = ErrPriorityEmpty
        /\ (buff # <<>> /\ buff[1] # "<") => ret.err = ErrPriorityNoStart
        /\ (Len(buff) >= 2 /\ buff[1] = "<" /\ buff[2] = ">")
               => ret.err = ErrPriorityTooShort
        /\ (buff # <<>> /\ buff[1] = "<" /\ LeadDigits > 3 /\ FirstClose # 0)
               => ret.err = ErrPriorityTooLong
        /\ (buff # <<>> /\ buff[1] = "<" /\ LeadDigits \in 1..3
            /\ LeadDigits + 1 = Len(buff)) => ret.err = ErrPriorityNoEnd
        /\ (buff # <<>> /\ buff[1] = "<" /\ LeadDigits \in 0..3
            /\ LeadDigits + 1 < Len(buff)
            /\ buff[LeadDigits + 2] \notin Digits \cup {">"})
               => ret.err = ErrPriorityNonDigit

C2_Witness ==
    /\ pc = "returned"
    /\ buff = <<"<", "1", "9", "9", "1", ">">>
    /\ ret.err = ErrPriorityTooLong
    /\ ret.cursor = 0

----------------------------------------------------------------------------
(* Claims about DetectRFC                                                  *)

\* C3: for a buffer of at least 10 bytes whose first '>' is at an index
\* i <= 8, DetectRFC returns a nil error and RFC_5424 when the byte at i+1
\* is a decimal digit, RFC_3164 when it is not.
C3_DetectClassifies ==
    (pc = "returned" /\ Len(buff) >= 10 /\ FirstClose \in 1..9) =>
        /\ ~ret.panic
        /\ ret.err = None
        /\ ret.rfc = IF IsDigit(buff[FirstClose + 1]) THEN RFC_5424
                     ELSE RFC_3164

C3_Witness ==
    /\ pc = "returned"
    /\ Len(buff) = 10
    /\ FirstClose = 9
    /\ buff[10] = "1"
    /\ ret.rfc = RFC_5424

\* C4: DetectRFC returns RFC_UNKNOWN and a non-nil error for every buffer
\* none of whose first 10 bytes is '>'.
C4_DetectFailsWithoutClose ==
    (pc = "returned" /\ \A i \in 1..Min(Len(buff), DetectMax) : buff[i] # ">")
        => (~ret.panic /\ ret.err # None /\ ret.rfc = RFC_UNKNOWN)

----------------------------------------------------------------------------
(* Claims about the two parsers                                            *)

\* buff is '<P>Mmm dd hh:mm:ss HOST TAG: CONTENT' with a valid priority and
\* timestamp, no '[pid]' suffix, no override, within the packet limit
LegacyForm ==
    /\ wire.fmt = "rfc3164"
    /\ wire.pri.P >= 0
    /\ wire.ts.valid
    /\ wire.pid = <<>>
    /\ opts = NoOpts
    /\ Len(buff) <= RFC3164_MAX_PACKET_LEN

\* C5: for a message '<P>Mmm dd hh:mm:ss HOST TAG: CONTENT' legacy Parse
\* returns nil and Dump returns exactly the seven keys, with priority P,
\* facility P div 8, severity P mod 8, hostname HOST, tag TAG, content
\* CONTENT without its surrounding spaces and the timestamp holding the
\* scanned month, day and time in UTC.
C5_LegacyParseDump ==
    LegacyForm =>
        /\ pc \notin {"failed", "panic"}
        /\ pc = "dumped" =>
            /\ DOMAIN parts = {"timestamp", "hostname", "tag", "content",
                               "priority", "facility", "severity"}
            /\ parts.priority = wire.pri.P
            /\ parts.facility = wire.pri.P \div 8
            /\ parts.severity = wire.pri.P % 8
            /\ parts.hostname = wire.host
            /\ parts.tag = wire.tag
            /\ parts.content = Trim(wire.content)
            /\ parts.timestamp.month = wire.ts.month
            /\ parts.timestamp.day = wire.ts.day
            /\ parts.timestamp.hour = wire.ts.hour
            /\ parts.timestamp.minute = wire.ts.minute
            /\ parts.timestamp.second = wire.ts.second
            /\ parts.timestamp.zone = 0

\* buff is '<P>V TS HOST APP PROCID MSGID SD[ MSG]' with a valid priority,
\* TS a calendar date and time or the nil marker, no override, within the
\* packet limit
StructuredForm ==
    /\ wire.fmt = "rfc5424"
    /\ wire.pri.P >= 0
    /\ wire.ts.valid
    /\ wire.ts.time.day <= DaysIn(wire.ts.time.month, wire.ts.time.year)
    /\ opts = NoOpts
    /\ Len(buff) <= RFC5424_MAX_PACKET_LEN

\* the offset just past the msg-id token of a structured message
MsgIdEnd ==
    Len(Prefix5424(wire.pri, wire.version, wire.ts, wire.host, wire.app,
                   wire.proc, wire.msgid, <<>>)) - 1

C7_YearBackfill ==
    pc = "rfc3164.parseHostname" => ret.ts.year = now

C7_Witness ==
    /\ pc = "rfc3164.parseHostname"
    /\ wire.ts.bytes = Str_Dec31
    /\ now = LastYear
    /\ ret.ts = Time(LastYear, 12, 31, 23, 59, 59, 0, 0)

\* the legacy scan step at position at has just been taken
Stepped(at) == pc = at /\ pc' # at

\* C8: in the legacy parser a supplied priority, non-empty hostname or
\* non-empty tag makes the corresponding scan step leave the cursor where
\* it is and return the supplied value, Dump carries exactly the supplied
\* values, and with hostname and tag both supplied everything after the
\* timestamp is content.
C8_OverridesBypassScan ==
    [][ /\ (Stepped("rfc3164.new") /\ run = run'
            /\ p.priority # NilPriority)
               => (p'.cursor = p.cursor /\ p'.priority = p.priority
                   /\ pc' = "rfc3164.parseTimestamp")
        /\ (Stepped("rfc3164.parseHostname") /\ p.hostname # <<>>)
               => (p'.cursor = p.cursor /\ p'.header.hostname = p.hostname)
        /\ (Stepped("rfc3164.parseTag") /\ p.tmpTag # <<>>)
               => (p'.cursor = p.cursor /\ ret'.tag = p.tmpTag
                   /\ pc' = "rfc3164.parseContent")
        /\ (pc' = "dumped" /\ wire.fmt = "rfc3164")
               => /\ opts.priority # NilPriority =>
                        /\ parts'.priority = opts.priority.P
                        /\ parts'.facility = opts.priority.F
                        /\ parts'.severity = opts.priority.S
                  /\ opts.hostname # <<>> => parts'.hostname = opts.hostname
                  /\ opts.tag # <<>> => parts'.tag = opts.tag
                  /\ (opts.hostname # <<>> /\ opts.tag # <<>>) =>
                        parts'.content =
                            Trim(Slice(buff, Len(wire.pri.bytes) + TsFmtLen,
                                       p.l))
      ]_vars

C8_Witness ==
    /\ pc = "dumped"
    /\ wire.fmt = "rfc3164"
    /\ wire.pri.P = -1
    /\ opts = [priority |-> OverridePriority, hostname |-> OverrideHostname,
               tag |-> OverrideTag]
    /\ parts.priority = 165
    /\ parts.hostname = OverrideHostname
    /\ parts.tag = OverrideTag
    /\ parts.content = <<"h", "o", "s", "t", " ", "s", "u", ":", " ", "h", "i">>

\* the second instance ended as the first one did
SameOutcome ==
    /\ prev.out.err = err
    /\ prev.out.panic = (pc = "panic")
    /\ pc = "dumped" => prev.out.parts = parts

\* the second instance has finished
SecondDone == run = 2 /\ pc \in {"failed", "panic", "dumped"}

LongLegacyForm ==
    /\ wire.fmt = "rfc3164"
    /\ wire.pri.P >= 0
    /\ wire.ts.valid
    /\ opts = NoOpts
    /\ Len(buff) > RFC3164_MAX_PACKET_LEN

\* the offset just past the ':' that ends the tag of a legacy message
TagEnd == Len(Prefix3164(wire.pri, wire.ts, wire.host, wire.tag, wire.pid)) - 1

\* C10: the scan limit is min(len(buffer), MAX) from construction on, MAX
\* being 2048 for the legacy and 3048 for the structured parser; on a legacy
\* message longer than 2048 bytes Parse succeeds and content is the bytes
\* from the end of the tag up to byte 2048, trimmed of spaces, hence at most
\* 2048 minus the length of the preceding part long.
C10_LengthCap ==
    /\ p.l = Min(Len(buff), IF wire.fmt = "rfc3164" THEN RFC3164_MAX_PACKET_LEN
                            ELSE RFC5424_MAX_PACKET_LEN)
    /\ LongLegacyForm =>
        /\ pc \notin {"failed", "panic"}
        /\ pc \in {"done", "dumped"} =>
            /\ p.message.content =
                   Trim(Slice(buff, TagEnd, RFC3164_MAX_PACKET_LEN))
            /\ Len(p.message.content) <= RFC3164_MAX_PACKET_LEN - TagEnd

C10_Witness ==
    /\ pc = "dumped"
    /\ LongLegacyForm
    /\ Len(buff) = RFC3164_MAX_PACKET_LEN + MaxOver
    /\ Len(parts.content) = RFC3164_MAX_PACKET_LEN - TagEnd - 1
    /\ p.l = RFC3164_MAX_PACKET_LEN

----------------------------------------------------------------------------
(* Claims about the scan functions of the structured parser                *)

\* parseStructuredData was called with the cursor on a '['
SdCalledOnOpen ==
    /\ pc = "returned"
    /\ wire.scan = "parseStructuredData"
    /\ InBuf(buff, p.cursor)
    /\ Byte(buff, p.cursor) = "["

\* the offsets, from the cursor on, of a ']' that is the last byte before
\* the limit or is followed by a space
SdCloses ==
    { k \in p.cursor..(p.l - 1) :
        Byte(buff, k) = "]" /\ (k + 1 = p.l \/ Byte(buff, k + 1) = " ") }

\* C11: called with the cursor on '[', parseStructuredData returns the
\* bytes from that '[' through the first ']' that is the last byte before
\* the limit or is followed by a space, and leaves the cursor just after
\* that ']'; so "[x][x]" is returned whole and "[x] [x]" yields "[x]"
C11_SdStoppingRule ==
    /\ (SdCalledOnOpen /\ SdCloses # {}) =>
           /\ ~ret.panic
           /\ ret.err = None
           /\ ret.val = Slice(buff, p.cursor, MinOf(SdCloses) + 1)
           /\ ret.cursor = MinOf(SdCloses) + 1
    /\ (SdCalledOnOpen /\ p.cursor = 0
        /\ buff = <<"[", "x", "]", "[", "x", "]">>) =>
           (ret.val = buff /\ ret.cursor = 6 /\ ret.err = None)
    /\ (SdCalledOnOpen /\ p.cursor = 0
        /\ buff = <<"[", "x", "]", " ", "[", "x", "]">>) =>
           (ret.val = <<"[", "x", "]">> /\ ret.cursor = 3 /\ ret.err = None)

\* two blocks separated by a space were scanned: the first one is returned
C11_Witness ==
    /\ SdCalledOnOpen
    /\ p.cursor = 0
    /\ buff = <<"[", "x", "]", " ", "[", "x", "]">>
    /\ ret.val = <<"[", "x", "]">>
    /\ ret.cursor = 3

\* a bounded-field scan was called and has returned
BoundedCalled == pc = "returned" /\ wire.scan \in BoundedFields

\* the most bytes the field scanned may hold
FieldMax ==
    CASE wire.scan = "parseAppName" -> 48
      [] wire.scan = "parseProcId" -> 128
      [] wire.scan = "parseMsgId" -> 32

\* the error of the field scanned
FieldErr ==
    CASE wire.scan = "parseAppName" -> ErrInvalidAppName
      [] wire.scan = "parseProcId" -> ErrInvalidProcId
      [] wire.scan = "parseMsgId" -> ErrInvalidMsgId

\* the offsets of the spaces from the cursor on
SpacesAhead == { k \in p.cursor..(p.l - 1) : Byte(buff, k) = " " }

\* the number of non-space bytes between the cursor and the first space
TokenLen == MinOf(SpacesAhead) - p.cursor

\* C12: a successful scan of app-name, proc-id or msg-id returns the nil
\* marker "-" or a token of 1 to N bytes (N = 48, 128, 32), never the empty
\* string
C12_BoundedFieldNonEmpty ==
    (BoundedCalled /\ ret.err = None) =>
        (ret.val = <<"-">> \/ Len(ret.val) \in 1..FieldMax)

\* C13: a token of n >= 1 non-space bytes followed by a space is returned in
\* full when n <= max, n = max included, and the scan fails with the field's
\* own error only when more than max bytes precede the first space
C13_BoundedFieldAccepts ==
    (BoundedCalled /\ SpacesAhead # {} /\ TokenLen >= 1) =>
        IF TokenLen <= FieldMax
        THEN /\ ret.err = None
             /\ ret.val = Slice(buff, p.cursor, p.cursor + TokenLen)
        ELSE ret.err = FieldErr

\* parseSecFrac was called with the cursor at the start of the buffer
FracCalled == pc = "returned" /\ wire.scan = "parseSecFrac" /\ p.cursor = 0

\* the number of decimal digits the buffer starts with
FracDigits ==
    CHOOSE n \in 0..Len(buff) :
        /\ \A i \in 1..n : buff[i] \in Digits
        /\ n = Len(buff) \/ buff[n + 1] \notin Digits

\* C16: a fraction of n digits d1..dn, 1 <= n <= 6, is scanned in exactly n
\* bytes and gives (the integer d1..dn) * 10^(9-n) nanoseconds: "52" gives
\* 520000000, "003" gives 3000000, "000003" gives 3000
C16_FracLeftAligned ==
    /\ (FracCalled /\ FracDigits \in 1..6) =>
           /\ ret.err = None
           /\ ret.cursor = FracDigits
           /\ toNSec(ret.val) =
                  Atoi(SubSeq(buff, 1, FracDigits)) * Pow10(9 - FracDigits)
    /\ (FracCalled /\ buff = <<"5", "2">>) => toNSec(ret.val) = 520000000
    /\ (FracCalled /\ buff = <<"0", "0", "3">>) => toNSec(ret.val) = 3000000
    /\ (FracCalled /\ buff = <<"0", "0", "0", "0", "0", "3">>) =>
           toNSec(ret.val) = 3000

\* the three digits "003" before a 'Z' were scanned as 3000000 ns
C16_Witness ==
    /\ FracCalled
    /\ buff = <<"0", "0", "3", "Z">>
    /\ ret.cursor = 3
    /\ toNSec(ret.val) = 3000000

----------------------------------------------------------------------------
(* Claims about messages that end early or carry no version               *)

\* offset of the byte that follows the '>' of the priority
AfterClose == Len(wire.pri.bytes)

\* the structured parser scanned a whole priority and the byte after its
\* '>' is missing or is not a decimal digit
NoVersionByte ==
    /\ wire.fmt = "rfc5424"
    /\ wire.pri.P >= 0
    /\ opts.priority = NilPriority
    /\ Len(buff) >= AfterClose
    /\ (Len(buff) = AfterClose \/ ~IsDigit(Byte(buff, AfterClose)))

\* C14: structured Parse never returns success when the byte following the
\* '>' of the priority is not a decimal digit or does not exist.
C14_NoVersionFails ==
    NoVersionByte => pc \notin {"done", "dumped"}

\* C15: whenever legacy or structured Parse has returned success, the
\* cursor is at most the scan limit.
C15_CursorWithinLimit ==
    pc \in {"done", "dumped"} => p.cursor <= p.l

\* C17: legacy Parse never crashes, whatever the buffer: it returns nil or
\* an error for the empty buffer and for a buffer that ends right after the
\* priority, the timestamp or the hostname, or inside the tag.
C17_LegacyNeverCrashes ==
    wire.fmt = "rfc3164" => pc # "panic"

\* C18: structured Parse never crashes, whatever the buffer: it returns nil
\* or an error for every buffer, however early it ends.
C18_StructuredNeverCrashes ==
    wire.fmt = "rfc5424" => pc # "panic"

\* C19: DetectRFC never crashes, whatever the buffer, buffers shorter than
\* 10 bytes included.
C19_DetectNeverCrashes ==
    pc = "returned" => ~ret.panic

\* offset at which the legacy timestamp scan starts
TsStart == IF opts.priority # NilPriority THEN 0 ELSE Len(wire.pri.bytes)

\* one of the two 15-byte formats matches at the start of the scan
TsMatches ==
    /\ wire.ts.valid
    /\ TsStart = Len(wire.pri.bytes)
    /\ TsStart + TsFmtLen <= p.l

\* legacy parseTimestamp has returned
TsReturned ==
    /\ wire.fmt = "rfc3164"
    /\ \/ pc = "rfc3164.parseHostname"
       \/ pc = "failed" /\ err = ErrTimestampUnknownFormat

\* C20: when neither 15-byte format matches at the cursor, fewer than 15
\* bytes remaining included, legacy parseTimestamp fails with
\* ErrTimestampUnknownFormat and leaves the cursor at offset 15, or at 16
\* when offset 15 is inside the scan limit and holds a space, wherever the
\* scan started.
C20_TimestampFailurePlacement ==
    (TsReturned /\ ~TsMatches) =>
        /\ pc = "failed"
        /\ err = ErrTimestampUnknownFormat
        /\ p.cursor = IF TsFmtLen < p.l /\ Byte(buff, TsFmtLen) = " "
                      THEN TsFmtLen + 1 ELSE TsFmtLen

C20_Witness ==
    /\ wire.fmt = "rfc3164"
    /\ pc = "failed"
    /\ err = ErrTimestampUnknownFormat
    /\ opts.priority = NilPriority
    /\ Len(wire.pri.bytes) = 4
    /\ Len(buff) = 10
    /\ p.cursor = TsFmtLen

----------------------------------------------------------------------------
(* Claims about the failure of a bounded field                             *)

\* no space occurs within the first max bytes of the scan
NoSpaceInField == \A k \in SpacesAhead : k >= p.cursor + FieldMax

\* the scan failed with the error of its field, an empty result and the
\* cursor max bytes after its start, or at the limit when that comes first
FailedAtBound ==
    /\ ret.err = FieldErr
    /\ ret.val = <<>>
    /\ ret.cursor = Min(p.cursor + FieldMax, p.l)

\* C21 as stated: when no space occurs within the first max bytes of an
\* app-name, proc-id or msg-id scan, the scan returns the empty string with
\* the error of its field and leaves the cursor at min(start + max, limit),
\* wherever the scan starts.
C21_FailurePlacementAnyStart ==
    (BoundedCalled /\ NoSpaceInField) => FailedAtBound

\* C21: the same for a scan that starts at or before the limit; a scan that
\* starts beyond the limit fails with the same error and leaves the cursor
\* where it was.
C21_FailurePlacement ==
    (BoundedCalled /\ NoSpaceInField) =>
        IF p.cursor <= p.l THEN FailedAtBound
        ELSE ret.err = FieldErr /\ ret.val = <<>> /\ ret.cursor = p.cursor

C21_Witness ==
    /\ BoundedCalled
    /\ wire.scan = "parseAppName"
    /\ p.cursor = 0
    /\ buff = [i \in 1..51 |-> IF i = 51 THEN " " ELSE "a"]
    /\ ret.err = ErrInvalidAppName
    /\ ret.cursor = 48

----------------------------------------------------------------------------
(* Claims about the scans of the structured timestamp                      *)

\* a fixed-width scan has returned
FixCalled == pc = "returned" /\ wire.scan \in FixedScans

\* the number of bytes the scan takes
FixWidth == IF wire.scan = "parseYear" THEN 4 ELSE 2

\* the bytes the scan takes
FixBytes == Slice(buff, p.cursor, p.cursor + FixWidth)

\* the bytes the scan takes are decimal digits
FixNumeric == \A i \in 1..Len(FixBytes) : IsDigit(FixBytes[i])

\* n is in the range of the field scanned; the year has none
FixInRange(n) ==
    CASE wire.scan = "parseYear" -> TRUE
      [] wire.scan = "parseMonth" -> n >= 1 /\ n <= 12
      [] wire.scan = "parseDay" -> n >= 1 /\ n <= 31
      [] wire.scan = "parseHour" -> n >= 0 /\ n <= 23
      [] wire.scan = "parseMinute" -> n >= 0 /\ n <= 59
      [] wire.scan = "parseSecond" -> n >= 0 /\ n <= 59

\* the invalid error of the field scanned
FixErr ==
    CASE wire.scan = "parseYear" -> ErrYearInvalid
      [] wire.scan = "parseMonth" -> ErrMonthInvalid
      [] wire.scan = "parseDay" -> ErrDayInvalid
      [] wire.scan = "parseHour" -> ErrHourInvalid
      [] wire.scan = "parseMinute" -> ErrMinuteInvalid
      [] wire.scan = "parseSecond" -> ErrSecondInvalid

\* C22: a fixed-width scan (year 4 bytes, the others 2) returns 0 with the
\* end-of-input error and the cursor unchanged when fewer bytes than its
\* width remain before the limit; otherwise it advances the cursor by its
\* width and returns the value of the bytes when they are decimal digits in
\* the range of the field, else 0 with the invalid error of the field.
C22_FixedWidthScan ==
    FixCalled =>
        IF p.cursor + FixWidth > p.l
        THEN ret.val = 0 /\ ret.err = ErrEOL /\ ret.cursor = p.cursor
        ELSE /\ ret.cursor = p.cursor + FixWidth
             /\ IF FixNumeric /\ FixInRange(Atoi(FixBytes))
                THEN ret.err = None /\ ret.val = Atoi(FixBytes)
                ELSE ret.err = FixErr /\ ret.val = 0

\* parseTimestamp has returned
StampCalled == pc = "returned" /\ wire.scan = "parseTimestamp"

\* the fraction has more than 6 digits
LongFrac == Len(wire.frac) > 7

\* the full-time part of the input scans: hour, minute, second, separators
\* and zone are good, and the fraction has at most 6 digits
FullTimeGood ==
    /\ wire.time.ok /\ ~wire.time.cut
    /\ wire.zone.ok /\ ~wire.zone.cut
    /\ ~LongFrac

\* the offset of the full-time part: after 'YYYY-MM-DD' and 'T'
TimeStart == p.cursor + 11

\* C23: parseTimestamp returns the error of the full-date scan unchanged
\* (invalid year, month or day, end of input, unknown format for a bad '-'),
\* invalid-time-format for a missing 'T', and the unknown-timestamp-format
\* error for every failure of the full-time scan, the cursor left where the
\* failing scan left it: just after the 6th digit of a fraction of more than
\* 6 digits.
C23_TimestampErrorMapping ==
    StampCalled =>
        /\ ~ret.panic
        /\ IF wire.date.err # None THEN ret.err = wire.date.err
           ELSE IF wire.sep # "T" THEN ret.err = ErrInvalidTimeFormat
           ELSE IF FullTimeGood THEN ret.err = None
           ELSE /\ ret.err = ErrTimestampUnknownFormat
                /\ ret.cursor = parseFullTime(buff, TimeStart, p.l).cursor
                /\ (wire.time.ok /\ ~wire.time.cut /\ LongFrac) =>
                       ret.cursor = TimeStart + 8 + 1 + 6

C23_Witness ==
    /\ StampCalled
    /\ wire.date.err = None /\ wire.sep = "T"
    /\ wire.time.ok /\ LongFrac
    /\ p.cursor = 2
    /\ ret.err = ErrTimestampUnknownFormat
    /\ ret.cursor = 28

\* parsePartialTime has returned for '22:14:15' followed by a '.' that no
\* decimal digit follows
DotWithoutDigit ==
    /\ pc = "returned" /\ wire.scan = "parsePartialTime"
    /\ wire.time.ok /\ ~wire.time.cut
    /\ wire.frac = <<".">>
    /\ ~IsDigit(Byte(buff, p.cursor + 9))

\* C24: when the seconds are followed by '.' and no decimal digit follows
\* the '.', parsePartialTime succeeds with the hour, minute and second
\* already scanned, a fraction of 0, and the cursor just past the '.'.
C24_FractionErrorSwallowed ==
    DotWithoutDigit =>
        /\ ~ret.panic
        /\ ret.err = None
        /\ ret.val = [hour |-> 22, minute |-> 14, seconds |-> 15,
                      secFrac |-> 0]
        /\ ret.cursor = p.cursor + 9

C24_Witness ==
    /\ DotWithoutDigit
    /\ p.cursor = 2
    /\ wire.zone.bytes = <<"Z">>
    /\ ret.err = None
    /\ ret.cursor = 11

----------------------------------------------------------------------------
(* Claims about the message of the structured parser                       *)

\* m is s without the spaces at its two ends
TrimmedFrom(m, s) ==
    /\ Len(m) <= Len(s)
    /\ m # <<>> => (m[1] # " " /\ m[Len(m)] # " ")
    /\ \E i \in 0..(Len(s) - Len(m)) :
          /\ m = SubSeq(s, i + 1, i + Len(m))
          /\ \A k \in (1..i) \cup ((i + Len(m) + 1)..Len(s)) : s[k] = " "

\* C25: after a successful structured-data scan Parse advances the cursor
\* by exactly one byte, whatever that byte is, and returns nil; the message
\* is buff[cursor:l] without its leading and trailing spaces when the cursor
\* is then below the limit, and the empty string otherwise.
C25_MessageExtraction ==
    [][ Stepped("rfc5424.message") =>
            /\ pc' = "done"
            /\ p'.cursor = p.cursor + 1
            /\ IF p'.cursor < p.l
               THEN TrimmedFrom(p'.message, Slice(buff, p'.cursor, p.l))
               ELSE p'.message = <<>>
      ]_vars

C25_Witness ==
    /\ wire.fmt = "rfc5424"
    /\ pc = "done"
    /\ wire.tail = <<"x", " ", "a", " ">>
    /\ Len(buff) = Len(Assemble5424(wire))
    /\ p.message = <<"a">>
    /\ p.cursor = p.l - 3

----------------------------------------------------------------------------
(* Claims about the tag scan of the legacy parser                          *)

\* parseTag has returned, or has crashed
TagCalled == pc = "returned" /\ wire.scan = "parseTag"

\* the offsets of the ':' and the spaces from the cursor on
Terminators ==
    { k \in p.cursor..(Len(buff) - 1) : Byte(buff, k) \in {":", " "} }

\* the offset of the byte that ends the tag
TagStop == MinOf(Terminators)

\* the offsets of the '[' between the cursor and the end of the tag
Opens == { k \in p.cursor..(TagStop - 1) : Byte(buff, k) = "[" }

\* the offset of the last '[' before the end of the tag
LastOpen == CHOOSE k \in Opens : \A j \in Opens : j <= k

\* the '[' of a suffix '[pid]' that ends just before the end of the tag:
\* a '[', bytes other than '[' and ']', then ']'
PidOpens ==
    { k \in Opens :
        /\ Byte(buff, TagStop - 1) = "]"
        /\ \A j \in (k + 1)..(TagStop - 2) : Byte(buff, j) \notin {"[", "]"} }

\* the cursor is just past the byte that ends the tag, and one byte further
\* when that byte is inside the limit and is a space
PastTerminator ==
    ret.cursor = IF TagStop + 1 < p.l /\ Byte(buff, TagStop + 1) = " "
                 THEN TagStop + 2 ELSE TagStop + 1

C27_TagScanBounded ==
    (TagCalled /\ Terminators = {}) => (~ret.panic /\ ret.cursor <= p.l)

\* C30: the tag parseTag returns holds no '[', however many '[' precede
\* the ':' or space that ends it.
C30_TagWithoutOpen ==
    (TagCalled /\ ~ret.panic) => \A i \in 1..Len(ret.val) : ret.val[i] # "["

----------------------------------------------------------------------------
(* Claims about the cursor during one Parse                                *)

\* the step is the failure of the priority scan
PriorityFailureStep == pc \in {"rfc3164.new", "rfc5424.new"} /\ pc' = "failed"

\* the step is the failure of the legacy timestamp scan
LegacyTimestampFailureStep ==
    pc = "rfc3164.parseTimestamp" /\ pc' = "failed"

\* C28: during one Parse on a fresh instance, legacy or structured, every
\* step leaves the cursor at or after the offset it had before the step,
\* except the failure of the priority scan and the failure of the legacy
\* timestamp scan.
C28_CursorMonotone ==
    [][ run' = run =>
            \/ p'.cursor >= p.cursor
            \/ PriorityFailureStep
            \/ LegacyTimestampFailureStep
      ]_vars

C28_Witness ==
    /\ wire.fmt = "rfc5424"
    /\ pc = "failed"
    /\ err = ErrInvalidProcId
    /\ p.cursor = p.l
    /\ p.cursor > 0

\* buff is a well-formed header that ends with its msg-id: priority,
\* version 1, timestamp, hostname, app-name, proc-id and a msg-id that the
\* end of the buffer follows
HeaderToEnd ==
    /\ wire.fmt = "rfc5424"
    /\ wire.pri.P >= 0
    /\ wire.version = <<"1">>
    /\ wire.ts.valid
    /\ opts = NoOpts
    /\ buff = wire.pri.bytes \o wire.version \o <<" ">> \o wire.ts.bytes
              \o <<" ">> \o wire.host \o <<" ">> \o wire.app \o <<" ">>
              \o wire.proc \o <<" ">> \o wire.msgid

\* C29: the header scan succeeds on a well-formed header whose msg-id is
\* ended by the end of the buffer, not by a space: Parse does not fail
\* before the structured-data scan.
C29_HeaderEndsAtEndOfBuffer ==
    HeaderToEnd => pc \notin {"failed", "panic"}

====
